---------------------------- MODULE Spec2Model ----------------------------
(***************************************************************************)
(* A model of the coinbase-python wallet library: the materialization of   *)
(* JSON into APIObject trees (coinbase/wallet/model.py), the dual          *)
(* attribute / mapping access of APIObject, the construction of API errors *)
(* (coinbase/wallet/error.py) and the request helpers of the wallet Client *)
(* and OAuthClient (coinbase/wallet/client.py); and of the legacy library: *)
(* APIObject.load and the endpoint methods of coinbase/model.py and        *)
(* coinbase/client.py.                                                     *)
(*                                                                         *)
(* Python values are tagged records:                                       *)
(*   [t |-> "str", v |-> s]   [t |-> "int", v |-> i]   [t |-> "null"]      *)
(*   [t |-> "list", v |-> <<values>>]                                      *)
(*   [t |-> "dict", v |-> << <<key, value>>, ... >>]  in insertion order   *)
(*   [t |-> "o", cls, dict, v]  an APIObject of class cls, with its        *)
(*        instance __dict__ (dict) and its mapping items (v), both as      *)
(*        insertion-ordered sequences of <<key, value>>                    *)
(*   [t |-> "ref", v |-> name]  an opaque Python object (a client, a       *)
(*        response, ...), known only by identity                           *)
(*   [t |-> "raise", exc |-> class]  an exception that left the call       *)
(***************************************************************************)
EXTENDS Integers, Sequences, FiniteSets, TLC

VARIABLES
  obj,          \* the JSON value handed to new_api_object
  size,         \* how many construction steps built obj
  arg_cls,      \* the cls argument of the last new_api_object call
  arg_kwargs,   \* its identity keyword arguments
  result,       \* what the call returned or raised; NoResult before it
  answers,      \* the responses the server gives to the requests of an API
                \* call, in order
  outcome,      \* the API call made and what came out of it; NoResult
                \* before it
  container,    \* an APIObject the caller assigns to and deletes from
  ops,          \* how many such operations the caller has made
  last,         \* the last of them and what it raised, if anything
  heap,         \* the objects a caller holds references to, by address
  held,         \* the addresses the caller's names are bound to
  tokens        \* the access and refresh token of an OAuthClient

buildVars == <<obj, size, arg_cls, arg_kwargs, result>>
clientVars == <<answers, outcome>>
attrVars == <<container, ops, last>>
heapVars == <<heap, held>>
vars == <<buildVars, clientVars, attrVars, heapVars, tokens>>
notBuildVars == <<clientVars, attrVars, heapVars, tokens>>
notClientVars == <<buildVars, attrVars, heapVars, tokens>>
notAttrVars == <<buildVars, clientVars, heapVars, tokens>>

\* Bounds of the model.
MaxSize == 3
MaxIndex == 2

----------------------------------------------------------------------------
(* Python values *)

StrVal(s) == [t |-> "str", v |-> s]
IntVal(i) == [t |-> "int", v |-> i]
Null == [t |-> "null"]
List(items) == [t |-> "list", v |-> items]
Dict(pairs) == [t |-> "dict", v |-> pairs]
Ref(name) == [t |-> "ref", v |-> name]
Raised(exc) == [t |-> "raise", exc |-> exc]
NoResult == [t |-> "none"]
Class(name) == [t |-> "class", v |-> name]

IsRaised(x) == x.t = "raise"
\* isinstance(x, dict): APIObject subclasses dict.
IsDict(x) == x.t \in {"dict", "o"}
IsList(x) == x.t = "list"
\* hash(x) succeeds: lists and dicts (APIObject included) are unhashable.
Hashable(x) == x.t \notin {"list", "dict", "o"}

SeqRange(s) == {s[i] : i \in 1..Len(s)}

\* The keys of an insertion-ordered mapping.
KeysOf(pairs) == {pairs[i][1] : i \in 1..Len(pairs)}
\* k in pairs
HasKey(pairs, k) == k \in KeysOf(pairs)
\* dict.__getitem__ for a key that is present
ItemOf(pairs, k) == pairs[CHOOSE i \in 1..Len(pairs) : pairs[i][1] = k][2]
\* dict.get(k, None)
DictGet(pairs, k) == IF HasKey(pairs, k) THEN ItemOf(pairs, k) ELSE Null
\* dict.__setitem__: a present key keeps its place, a new key goes last.
DictSetItem(pairs, k, val) ==
  IF HasKey(pairs, k)
    THEN [i \in 1..Len(pairs) |->
            IF pairs[i][1] = k THEN <<k, val>> ELSE pairs[i]]
    ELSE Append(pairs, <<k, val>>)
\* dict.__delitem__ for a key that is present
DictDelItem(pairs, k) == SelectSeq(pairs, LAMBDA p : p[1] # k)

----------------------------------------------------------------------------
(* coinbase/wallet/model.py: the dispatch tables *)

_resource_to_model ==
  [account |-> "Account", balance |-> "Money", buy |-> "Buy",
   checkout |-> "Checkout", deposit |-> "Transfer", merchant |-> "Merchant",
   notification |-> "Notification", order |-> "Order",
   payment_method |-> "PaymentMethod", report |-> "Report", sell |-> "Sell",
   transaction |-> "Transaction", transfer |-> "Transfer", user |-> "User",
   withdrawal |-> "Withdrawal"]

_obj_keys_to_model == << [keys |-> {"amount", "currency"}, model |-> "Money"] >>

\* _resource_to_model.get(resource, None); "None" when there is no entry.
\* The lookup hashes resource, so the caller must know it is hashable.
ResourceLookup(resource) ==
  IF resource.t = "str" /\ resource.v \in DOMAIN _resource_to_model
    THEN _resource_to_model[resource.v]
    ELSE "None"

\* The scan of _obj_keys_to_model in table order: the first entry from index
\* i on whose keys are a subset of obj_keys, "None" when there is none.
RECURSIVE KeysLookup(_, _)
KeysLookup(i, obj_keys) ==
  IF i > Len(_obj_keys_to_model) THEN "None"
  ELSE IF _obj_keys_to_model[i].keys \subseteq obj_keys
    THEN _obj_keys_to_model[i].model
    ELSE KeysLookup(i + 1, obj_keys)

----------------------------------------------------------------------------
(* coinbase/wallet/model.py: APIObject *)

IdentityNames == <<"api_client", "response", "pagination", "warnings">>
\* self.__api_client and its like are name-mangled by the class body.
Mangled(name) == "_APIObject__" \o name

\* The attribute names of the model that begin with an underscore.
UnderscoreNames ==
  {"_id", "_test"} \cup {Mangled(IdentityNames[i]) : i \in 1..4}
\* key.startswith('_')
StartsWithUnderscore(key) == key \in UnderscoreNames

\* APIObject.__setattr__
SetAttr(o, key, value) ==
  IF StartsWithUnderscore(key) \/ HasKey(o.dict, key)
    THEN [o EXCEPT !.dict = DictSetItem(o.dict, key, value)]
    ELSE [o EXCEPT !.v = DictSetItem(o.v, key, value)]

\* A __delattr__ that lets the KeyError of dict.__delitem__ through.
DelAttrUntranslated(o, key) ==
  IF HasKey(o.v, key) THEN [o EXCEPT !.v = DictDelItem(o.v, key)]
  ELSE Raised("KeyError")

\* APIObject.__delattr__: dict.__delitem__, its KeyError turned into an
\* AttributeError. The result is the object, or the exception raised.
DelAttr(o, key) ==
  IF HasKey(o.v, key) THEN [o EXCEPT !.v = DictDelItem(o.v, key)]
  ELSE Raised("AttributeError")

\* dict.__delitem__ on an APIObject, which does not override it.
DelItem(o, key) ==
  IF HasKey(o.v, key) THEN [o EXCEPT !.v = DictDelItem(o.v, key)]
  ELSE Raised("KeyError")

\* dict.__setitem__ on an APIObject, which does not override it.
SetItem(o, key, value) == [o EXCEPT !.v = DictSetItem(o.v, key, value)]

\* APIObject.__init__: cls(api_client, response=, pagination=, warnings=)
NewObject(cls, api_client, kwargs) ==
  LET o0 == [t |-> "o", cls |-> cls, dict |-> <<>>, v |-> <<>>]
      o1 == SetAttr(o0, Mangled("api_client"), api_client)
      o2 == SetAttr(o1, Mangled("response"), kwargs.response)
      o3 == SetAttr(o2, Mangled("pagination"), kwargs.pagination)
  IN  SetAttr(o3, Mangled("warnings"), kwargs.warnings)

NoKwargs == [response |-> Null, pagination |-> Null, warnings |-> Null]

\* The values of the variables a specification does not use.
IdleBuild ==
  /\ obj = Null /\ size = 0 /\ arg_cls = "None" /\ arg_kwargs = NoKwargs
  /\ result = NoResult
IdleClient == answers = <<>> /\ outcome = NoResult
IdleAttr == container = Null /\ ops = 0 /\ last = NoResult
IdleHeap == heap = <<>> /\ held = <<>>
IdleTokens == tokens = Null

----------------------------------------------------------------------------
(* coinbase/wallet/model.py: new_api_object *)

\* Lines 13-22: the class of a mapping node. cls is "None" or a class name;
\* the result is Class(name), or Raised("TypeError") when the node's
\* 'resource' value cannot be hashed for the table lookup.
ResolveClass(pairs, cls) ==
  IF cls # "None" THEN Class(cls)
  ELSE LET resource == DictGet(pairs, "resource")
       IN  IF ~Hashable(resource) THEN Raised("TypeError")
           ELSE LET by_resource == ResourceLookup(resource)
                    by_keys == KeysLookup(1, KeysOf(pairs))
                IN  IF by_resource # "None" THEN Class(by_resource)
                    ELSE IF by_keys # "None" THEN Class(by_keys)
                    ELSE Class("APIObject")

RECURSIVE new_api_object(_, _, _, _)
RECURSIVE FillObject(_, _, _, _)
RECURSIVE MapList(_, _, _, _)

\* Lines 24-25: result[k] = new_api_object(client, v) for the pairs from
\* index i on; an exception of a child leaves the loop.
FillObject(res, pairs, i, client) ==
  IF i > Len(pairs) THEN res
  ELSE LET child == new_api_object(client, pairs[i][2], "None", NoKwargs)
       IN  IF IsRaised(child) THEN child
           ELSE FillObject(SetItem(res, pairs[i][1], child), pairs, i + 1, client)

\* Line 28: [new_api_object(client, v, cls) for v in obj] from index i on.
MapList(items, i, client, cls) ==
  IF i > Len(items) THEN List(<<>>)
  ELSE LET head == new_api_object(client, items[i], cls, NoKwargs)
       IN  IF IsRaised(head) THEN head
           ELSE LET rest == MapList(items, i + 1, client, cls)
                IN  IF IsRaised(rest) THEN rest
                    ELSE List(<<head>> \o rest.v)

new_api_object(client, o, cls, kwargs) ==
  IF IsDict(o)
    THEN LET c == ResolveClass(o.v, cls)
         IN  IF IsRaised(c) THEN c
             ELSE FillObject(NewObject(c.v, client, kwargs), o.v, 1, client)
  ELSE IF IsList(o) THEN MapList(o.v, 1, client, cls)
  ELSE o

----------------------------------------------------------------------------
(* coinbase/wallet/model.py: attribute and item access on an APIObject *)

\* Names every APIObject inherits from dict (class APIObject(dict)).
DictMethods ==
  {"items", "keys", "values", "get", "update", "pop", "popitem", "clear",
   "copy", "setdefault", "fromkeys"}
\* The read-only properties of APIObject.
Properties == SeqRange(IdentityNames)
\* The methods and class variables the class body of cls defines or inherits,
\* properties aside.
ClassAttrs(cls) ==
  DictMethods \cup {"refresh"} \cup {Mangled(IdentityNames[i]) : i \in 1..4}
  \cup (CASE cls = "Account" ->
               {"set_primary", "modify", "delete", "get_addresses",
                "send_money", "buy", "sell", "deposit", "withdraw"}
          [] cls = "Order" -> {"refund"}
          [] cls \in {"Transfer", "Buy", "Sell", "Deposit", "Withdrawal"} ->
               {"commit"}
          [] cls = "Transaction" -> {"complete", "resend", "cancel"}
          [] cls = "Checkout" -> {"get_orders", "create_order"}
          [] cls = "CurrentUser" -> {"modify"}
          [] OTHER -> {})

\* getattr(o, name): where Python finds the attribute. A property of the type
\* comes first, then the instance __dict__, then the other attributes of the
\* class, and only then __getattr__, which reads the mapping.
GetAttr(o, name) ==
  IF name \in Properties THEN [via |-> "property", name |-> name]
  ELSE IF HasKey(o.dict, name) THEN [via |-> "__dict__", name |-> name]
  ELSE IF name \in ClassAttrs(o.cls) THEN [via |-> "class", name |-> name]
  ELSE IF HasKey(o.v, name) THEN [via |-> "item", name |-> name]
  ELSE [via |-> "AttributeError", name |-> name]

\* The object an attribute lookup yields.
AttrValue(o, name) ==
  LET found == GetAttr(o, name)
  IN  CASE found.via = "property" -> DictGet(o.dict, Mangled(name))
        [] found.via = "__dict__" -> ItemOf(o.dict, name)
        [] found.via = "class" ->
             IF name \in {Mangled(IdentityNames[i]) : i \in 1..4}
               THEN Null ELSE Ref("method " \o name)
        [] found.via = "item" -> ItemOf(o.v, name)
        [] OTHER -> Raised("AttributeError")

\* Keys of __getitem__: a string, an integer or a slice.
StrKey(k) == [t |-> "str", v |-> k]
IntKey(i) == [t |-> "int", v |-> i]
\* slice(start, stop, step); a bound left out is Null.
Slice(start, stop, step) ==
  [t |-> "slice", start |-> start, stop |-> stop, step |-> step]

Max(a, b) == IF a > b THEN a ELSE b
Min(a, b) == IF a < b THEN a ELSE b

\* list.__getitem__(i) for an integer
ListIndex(items, i) ==
  LET n == Len(items)
  IN  IF 0 <= i /\ i < n THEN items[i + 1]
      ELSE IF i < 0 /\ -n <= i THEN items[n + i + 1]
      ELSE Raised("IndexError")

\* The indices start, start + step, ... short of stop, as 1-based positions.
RECURSIVE SliceWalk(_, _, _, _)
SliceWalk(items, i, stop, step) ==
  IF (step > 0 /\ i >= stop) \/ (step < 0 /\ i <= stop) THEN <<>>
  ELSE <<items[i + 1]>> \o SliceWalk(items, i + step, stop, step)

\* list.__getitem__(slice): the bounds are clipped as slice.indices does.
ListSlice(items, s) ==
  LET n == Len(items)
      step == IF s.step = Null THEN 1 ELSE s.step.v
      lower == IF step < 0 THEN -1 ELSE 0
      upper == IF step < 0 THEN n - 1 ELSE n
      Clip(b) == IF b < 0 THEN Max(b + n, lower) ELSE Min(b, upper)
      start == IF s.start = Null
                 THEN (IF step < 0 THEN upper ELSE lower)
                 ELSE Clip(s.start.v)
      stop == IF s.stop = Null
                THEN (IF step < 0 THEN lower ELSE upper)
                ELSE Clip(s.stop.v)
  IN  IF step = 0 THEN Raised("ValueError")
      ELSE List(SliceWalk(items, start, stop, step))

\* data[key] for a list and an integer or slice key
ListGet(items, key) ==
  IF key.t = "int" THEN ListIndex(items, key.v) ELSE ListSlice(items, key)

\* dict.__getitem__(self, key): the mappings of the model have string keys
\* only, and a slice cannot be hashed.
DictGetItem(pairs, key) ==
  IF key.t = "slice" THEN Raised("TypeError")
  ELSE IF key.t = "str" /\ HasKey(pairs, key.v) THEN ItemOf(pairs, key.v)
  ELSE Raised("KeyError")

\* A __getitem__ that sends integer keys to the 'data' list but looks every
\* other key, slices included, up in the mapping.
GetItemIntegersOnly(o, key) ==
  LET found == GetAttr(o, "data")
      data == IF found.via = "AttributeError" THEN Null
              ELSE AttrValue(o, "data")
  IN  IF IsList(data) /\ key.t = "int"
        THEN ListGet(data.v, key)
        ELSE DictGetItem(o.v, key)

\* APIObject.__getitem__
GetItem(o, key) ==
  LET found == GetAttr(o, "data")
      data == IF found.via = "AttributeError" THEN Null
              ELSE AttrValue(o, "data")
  IN  IF IsList(data) /\ key.t \in {"int", "slice"}
        THEN ListGet(data.v, key)
        ELSE DictGetItem(o.v, key)

\* dict.__eq__ and list.__eq__: mappings are equal when they hold equal values
\* under the same keys, whatever their class, order of insertion or attributes.
RECURSIVE PyEq(_, _)
PyEq(a, b) ==
  IF IsDict(a) /\ IsDict(b)
    THEN /\ KeysOf(a.v) = KeysOf(b.v)
         /\ \A k \in KeysOf(a.v) : PyEq(ItemOf(a.v, k), ItemOf(b.v, k))
  ELSE IF IsList(a) /\ IsList(b)
    THEN /\ Len(a.v) = Len(b.v)
         /\ \A i \in 1..Len(a.v) : PyEq(a.v[i], b.v[i])
  ELSE IF IsDict(a) \/ IsDict(b) \/ IsList(a) \/ IsList(b) THEN FALSE
  ELSE a = b

\* The strings of the model in the order sorted() gives them.
SortedNames ==
  <<"_id", "_test", "amount", "currency", "data", "items", "resource",
    "response", "test">>
\* sorted(keys)
SortedKeys(pairs) == SelectSeq(SortedNames, LAMBDA k : HasKey(pairs, k))

\* json.dumps(x, sort_keys=True) as the sequence of its tokens; the encoder
\* writes a dict subclass as it writes a dict, from its items alone.
RECURSIVE JsonDumps(_)
RECURSIVE DumpItems(_, _, _)
RECURSIVE DumpList(_, _)
DumpItems(pairs, keys, i) ==
  IF i > Len(keys) THEN <<>>
  ELSE (IF i > 1 THEN <<",">> ELSE <<>>)
       \o <<"\"" \o keys[i] \o "\"", ":">>
       \o JsonDumps(ItemOf(pairs, keys[i]))
       \o DumpItems(pairs, keys, i + 1)
DumpList(items, i) ==
  IF i > Len(items) THEN <<>>
  ELSE (IF i > 1 THEN <<",">> ELSE <<>>)
       \o JsonDumps(items[i]) \o DumpList(items, i + 1)
JsonDumps(x) ==
  CASE IsDict(x) -> <<"{">> \o DumpItems(x.v, SortedKeys(x.v), 1) \o <<"}">>
    [] IsList(x) -> <<"[">> \o DumpList(x.v, 1) \o <<"]">>
    [] x.t = "str" -> <<"\"" \o x.v \o "\"">>
    [] x.t = "int" -> <<ToString(x.v)>>
    [] x.t = "null" -> <<"null">>
    [] OTHER -> <<"TypeError">>

\* Every APIObject of a materialized tree: the root and, transitively, the
\* values of mappings and the elements of lists.
RECURSIVE Containers(_)
Containers(x) ==
  IF x.t = "o"
    THEN {x} \cup UNION {Containers(x.v[i][2]) : i \in 1..Len(x.v)}
  ELSE IF x.t = "list" THEN UNION {Containers(x.v[i]) : i \in 1..Len(x.v)}
  ELSE {}

----------------------------------------------------------------------------
(* coinbase/wallet/error.py *)

\* d.get(key, default)
GetOr(pairs, key, default) ==
  IF HasKey(pairs, key) THEN ItemOf(pairs, key) ELSE default

\* bool(x)
Truthy(x) ==
  CASE x.t = "null" -> FALSE
    [] x.t \in {"list", "dict", "o"} -> Len(x.v) > 0
    [] x.t = "str" -> x.v # ""
    [] x.t = "int" -> x.v # 0
    [] x.t = "bool" -> x.v
    [] OTHER -> TRUE

_error_id_to_class ==
  [two_factor_required |-> "TwoFactorRequiredError",
   param_required |-> "ParamRequiredError",
   validation_error |-> "ValidationError",
   invalid_request |-> "InvalidRequestError",
   personal_details_required |-> "PersonalDetailsRequiredError",
   authentication_error |-> "AuthenticationError",
   unverified_email |-> "UnverifiedEmailError",
   invalid_token |-> "InvalidTokenError",
   revoked_token |-> "RevokedTokenError",
   expired_token |-> "ExpiredTokenError",
   invalid_scope |-> "InvalidScopeError",
   not_found |-> "NotFoundError",
   rate_limit_exceeded |-> "RateLimitExceededError",
   internal_server_error |-> "InternalServerError"]

_status_code_to_class ==
  (400 :> "InvalidRequestError") @@ (401 :> "AuthenticationError")
  @@ (402 :> "TwoFactorRequiredError") @@ (403 :> "InvalidScopeError")
  @@ (404 :> "NotFoundError") @@ (422 :> "ValidationError")
  @@ (429 :> "RateLimitExceededError") @@ (500 :> "InternalServerError")
  @@ (503 :> "ServiceUnavailableError")

\* APIError and its subclasses.
APIErrorClasses ==
  {"APIError", "ServiceUnavailableError"}
  \cup {_error_id_to_class[id] : id \in DOMAIN _error_id_to_class}

\* An HTTP response: its status code and its body, which is empty, not JSON,
\* or a JSON object.
Response(status_code, content) ==
  [t |-> "response", status_code |-> status_code, content |-> content]
EmptyBody == [t |-> "empty"]
NotJson == [t |-> "text"]

\* response.json()
ResponseJson(response) ==
  IF response.content.t = "dict" THEN response.content
  ELSE Raised("ValueError")

\* APIError.__init__(response, id, message, errors) of class error_class
NewAPIError(error_class, response, id, message) ==
  [t |-> "raise", exc |-> error_class, response |-> response,
   status_code |-> response.status_code,
   id |-> IF Truthy(id) THEN id ELSE StrVal(""),
   message |-> IF Truthy(message) THEN message ELSE StrVal("")]

\* A choice of class that consults the status table before the identifier
\* table.
ErrorClassStatusFirst(error_id, status_code) ==
  IF status_code \in DOMAIN _status_code_to_class
    THEN _status_code_to_class[status_code]
  ELSE IF error_id.t = "str" /\ error_id.v \in DOMAIN _error_id_to_class
    THEN _error_id_to_class[error_id.v]
  ELSE "APIError"

\* Lines 61-63: the class for an error identifier and a status code.
ErrorClassFor(error_id, status_code) ==
  IF error_id.t = "str" /\ error_id.v \in DOMAIN _error_id_to_class
    THEN _error_id_to_class[error_id.v]
  ELSE IF status_code \in DOMAIN _status_code_to_class
    THEN _status_code_to_class[status_code]
  ELSE "APIError"

\* build_api_error(response, blob): the exception it returns, or the one
\* response.json() raises. blob is Null when the caller passes none.
build_api_error(response, blob) ==
  LET b == IF Truthy(blob) THEN blob ELSE ResponseJson(response)
  IN  IF IsRaised(b) THEN b
      ELSE LET error_list == DictGet(b.v, "errors")
               error == IF Truthy(error_list) THEN error_list.v[1]
                        ELSE Dict(<<>>)
               error_id == IF Truthy(error)
                             THEN GetOr(error.v, "id", StrVal(""))
                             ELSE DictGet(b.v, "error")
               error_message ==
                 IF Truthy(error)
                   THEN GetOr(error.v, "message", StrVal(""))
                   ELSE DictGet(b.v, "error_description")
           IN  NewAPIError(ErrorClassFor(error_id, response.status_code),
                           response, error_id, error_message)

----------------------------------------------------------------------------
(* coinbase/wallet/client.py: the request helpers *)

\* The first character of str(n), for n >= 0.
RECURSIVE FirstDigit(_)
FirstDigit(n) == IF n < 10 THEN n ELSE FirstDigit(n \div 10)

\* A _handle_response that also raises for a 2xx response whose body carries
\* a non-empty 'errors' list.
HandleResponseRaisingOnErrors(response) ==
  IF \/ FirstDigit(response.status_code) # 2
     \/ /\ response.content.t = "dict"
        /\ Truthy(DictGet(response.content.v, "errors"))
    THEN build_api_error(response, Null)
    ELSE response

\* Client._handle_response
_handle_response(response) ==
  IF FirstDigit(response.status_code) # 2
    THEN build_api_error(response, Null)
    ELSE response

\* What a request helper leaves: the response it returned or the exception
\* it raised, the HTTP method of its requests and how many it sent.
Got(out, method, sent) == [out |-> out, method |-> method, sent |-> sent]

\* Client._request: the session sends the request and the server's answer
\* goes through _handle_response.
_request(answer) == _handle_response(answer)

\* A _get that returns the first page it is given and asks for no other.
GetFirstPageOnly(script, i, prev_data) == Got(_request(script[i]), "get", i)

\* A _get that puts the items of the pages in the order it fetched them.
RECURSIVE GetInFetchOrder(_, _, _)
GetInFetchOrder(script, i, prev_data) ==
  LET resp == _request(script[i])
  IN  IF IsRaised(resp) \/ resp.content.t # "dict" THEN Got(resp, "get", i)
      ELSE IF ~HasKey(resp.content.v, "pagination") THEN Got(resp, "get", i)
      ELSE LET content == resp.content.v
               fetched == prev_data \o ItemOf(content, "data").v
           IN  IF ~Truthy(ItemOf(ItemOf(content, "pagination").v, "next_uri"))
                 THEN Got([resp EXCEPT !.content =
                             Dict(DictSetItem(content, "data", List(fetched)))],
                          "get", i)
                 ELSE GetInFetchOrder(script, i + 1, fetched)

\* Client._get: script[i] is the server's answer to the i-th request of the
\* walk, prev_data the items of the pages before it. The result is
\* Got(the response returned or the exception raised, "get", the number of
\* requests issued).
RECURSIVE _get(_, _, _)
_get(script, i, prev_data) ==
  LET resp == _request(script[i])
  IN  IF IsRaised(resp) THEN Got(resp, "get", i)
      ELSE IF resp.content.t = "empty" THEN Got(resp, "get", i)
      ELSE IF resp.content.t = "text"
        THEN Got(Raised("ValueError"), "get", i)
      ELSE IF ~HasKey(resp.content.v, "pagination")
        THEN Got(resp, "get", i)
      ELSE LET content == resp.content.v
               page_info == ItemOf(content, "pagination")
           IN  IF ~HasKey(page_info.v, "next_uri") \/ ~HasKey(content, "data")
                 THEN Got(Raised("KeyError"), "get", i)
               ELSE IF ~Truthy(ItemOf(page_info.v, "next_uri"))
                 THEN Got([resp EXCEPT !.content =
                             Dict(DictSetItem(content, "data",
                               List(ItemOf(content, "data").v \o prev_data)))],
                          "get", i)
                 ELSE _get(script, i + 1,
                           prev_data \o ItemOf(content, "data").v)

\* Client._post, Client._put and Client._delete: one request each.
_post(answer) == Got(_request(answer), "post", 1)
_put(answer) == Got(_request(answer), "put", 1)
_delete(answer) == Got(_request(answer), "delete", 1)

\* A loop that warns about the first entry and stops.
WarningsFirstOnly(warnings_data) ==
  IF Truthy(warnings_data)
    THEN <<<<GetOr(warnings_data.v[1].v, "message", StrVal("")),
             GetOr(warnings_data.v[1].v, "url", StrVal(""))>>>>
    ELSE <<>>

\* Lines 186-190: the user warning of each entry of warnings_data.
WarningsFor(warnings_data) ==
  IF Truthy(warnings_data)
    THEN [i \in 1..Len(warnings_data.v) |->
            <<GetOr(warnings_data.v[i].v, "message", StrVal("")),
              GetOr(warnings_data.v[i].v, "url", StrVal(""))>>]
    ELSE <<>>

\* A _make_api_object without the check for the 'data' field: it materializes
\* whatever the body holds.
MakeApiObjectUnchecked(client, response, model_type) ==
  [out |-> new_api_object(client, ResponseJson(response), model_type, NoKwargs),
   warned |-> <<>>]

\* Client._make_api_object(response, model_type): [out |-> the object returned
\* or the exception raised, warned |-> the user warnings emitted].
_make_api_object(client, response, model_type) ==
  LET blob == ResponseJson(response)
  IN  IF IsRaised(blob) THEN [out |-> blob, warned |-> <<>>]
      ELSE
        LET data == DictGet(blob.v, "data")
            warnings_data == DictGet(blob.v, "warnings")
            pagination == DictGet(blob.v, "pagination")
            kwargs ==
              [response |-> response,
               pagination |->
                 IF Truthy(pagination)
                   THEN new_api_object(Null, pagination, "APIObject", NoKwargs)
                   ELSE pagination,
               warnings |->
                 IF Truthy(warnings_data)
                   THEN new_api_object(Null, warnings_data, "APIObject", NoKwargs)
                   ELSE warnings_data]
        IN  IF data = Null
              THEN [out |-> build_api_error(response, blob), warned |-> <<>>]
            ELSE IF IsRaised(kwargs.pagination)
              THEN [out |-> kwargs.pagination, warned |-> WarningsFor(warnings_data)]
            ELSE IF IsRaised(kwargs.warnings)
              THEN [out |-> kwargs.warnings, warned |-> WarningsFor(warnings_data)]
            ELSE IF IsDict(data)
              THEN [out |-> new_api_object(client, data, model_type, kwargs),
                    warned |-> WarningsFor(warnings_data)]
            ELSE LET value == new_api_object(client, data, model_type, NoKwargs)
                 IN  [out |-> IF IsRaised(value) THEN value
                              ELSE SetAttr(NewObject("APIObject", client, kwargs),
                                           "data", value),
                      warned |-> WarningsFor(warnings_data)]

----------------------------------------------------------------------------
(* The JSON values new_api_object is called on *)

\* Keys of the JSON objects: the discriminator key, the two keys of the
\* key-set table, the key that backs integer indexing and a key named like a
\* dict method.
Keys == {"resource", "amount", "currency", "data", "items"}
Scalars == {StrVal("account"), IntVal(1), Null}
Atoms == Scalars \cup {List(<<>>), Dict(<<>>)}
Classes == {"None", "Order"}
TheClient == Ref("client")
SomeKwargs ==
  [response |-> Ref("response"), pagination |-> Ref("pagination"),
   warnings |-> Ref("warnings")]

Init ==
  /\ obj \in Atoms
  /\ size = 0
  /\ arg_cls = "None"
  /\ arg_kwargs = NoKwargs
  /\ result = NoResult
  /\ IdleClient /\ IdleAttr /\ IdleHeap /\ IdleTokens

\* The value becomes the only element of a list.
WrapInList ==
  /\ result = NoResult /\ size < MaxSize
  /\ obj' = List(<<obj>>)
  /\ size' = size + 1
  /\ UNCHANGED <<arg_cls, arg_kwargs, result>>
  /\ UNCHANGED notBuildVars

\* The value becomes the only value of a mapping.
WrapInDict ==
  /\ result = NoResult /\ size < MaxSize
  /\ \E k \in Keys : obj' = Dict(<< <<k, obj>> >>)
  /\ size' = size + 1
  /\ UNCHANGED <<arg_cls, arg_kwargs, result>>
  /\ UNCHANGED notBuildVars

\* A list gets one more element.
AppendItem ==
  /\ result = NoResult /\ size < MaxSize
  /\ obj.t = "list"
  /\ \E a \in Atoms : obj' = List(Append(obj.v, a))
  /\ size' = size + 1
  /\ UNCHANGED <<arg_cls, arg_kwargs, result>>
  /\ UNCHANGED notBuildVars

\* A mapping gets one more key.
PutKey ==
  /\ result = NoResult /\ size < MaxSize
  /\ obj.t = "dict"
  /\ \E k \in Keys \ KeysOf(obj.v), a \in Scalars :
       obj' = Dict(Append(obj.v, <<k, a>>))
  /\ size' = size + 1
  /\ UNCHANGED <<arg_cls, arg_kwargs, result>>
  /\ UNCHANGED notBuildVars

\* new_api_object(client, obj, cls, **kwargs)
Materialize ==
  /\ result = NoResult
  /\ \E cls \in Classes, kwargs \in {NoKwargs, SomeKwargs} :
       /\ arg_cls' = cls
       /\ arg_kwargs' = kwargs
       /\ result' = new_api_object(TheClient, obj, cls, kwargs)
  /\ UNCHANGED <<obj, size>>
  /\ UNCHANGED notBuildVars

Next == WrapInList \/ WrapInDict \/ AppendItem \/ PutKey \/ Materialize

Spec == Init /\ [][Next]_vars

----------------------------------------------------------------------------
(* The wallet Client against a server: SpecClient *)

\* Status codes the server answers with: the ends of the 2xx range and their
\* neighbours, codes of the status table and codes outside it.
StatusCodes == {199, 200, 201, 299, 300, 400, 401, 404, 418, 500, 503}

\* How many pages may precede the last page of a paginated collection.
MaxPages == 1

\* The error part of a body: nothing, an empty 'errors' list, a first entry
\* with a mapped identifier, with an unmapped one, or with none.
ErrorLists ==
  {<<>>,
   << <<"errors", List(<<>>)>> >>,
   << <<"errors", List(<<Dict(<< <<"id", StrVal("expired_token")>>,
                                 <<"message", StrVal("m")>> >>)>>)>> >>,
   << <<"errors", List(<<Dict(<< <<"id", StrVal("teapot")>>,
                                 <<"message", StrVal("m")>> >>)>>)>> >>,
   << <<"errors", List(<<Dict(<< <<"message", StrVal("m")>> >>)>>)>> >>}

\* The OAuth error part of a body: nothing, a mapped or an unmapped 'error'.
TopErrors ==
  {<<>>,
   << <<"error", StrVal("not_found")>>,
      <<"error_description", StrVal("d")>> >>,
   << <<"error", StrVal("teapot")>> >>}

WarningLists ==
  {<<>>,
   << <<"warnings", List(<<Dict(<< <<"message", StrVal("w")>>,
                                   <<"url", StrVal("u")>> >>)>>)>> >>}

\* The n-th item the server sends.
Item(n) == Dict(<< <<"resource", StrVal("account")>>, <<"id", IntVal(n)>> >>)

\* The payload part of the n-th answer: no 'data', one resource, a list,
\* the last page of a list, or a page with more to come.
Payloads(n) ==
  {<<>>,
   << <<"data", Item(n)>> >>,
   << <<"data", List(<<Item(n)>>)>> >>,
   << <<"data", List(<<Item(n)>>)>>,
      <<"pagination", Dict(<< <<"next_uri", Null>> >>)>> >>,
   << <<"data", List(<<Item(n)>>)>>,
      <<"pagination", Dict(<< <<"next_uri", StrVal("next")>> >>)>> >>}

\* The bodies of the n-th answer: JSON envelopes, no content at all, and
\* text that is not JSON.
JsonBodies(n) ==
  {Dict(p \o e \o o \o w) : p \in Payloads(n), e \in ErrorLists,
                            o \in TopErrors, w \in WarningLists}

\* Whether _get, given this answer, asks for another page.
IsNextPage(answer) ==
  /\ FirstDigit(answer.status_code) = 2
  /\ answer.content.t = "dict"
  /\ HasKey(answer.content.v, "pagination")
  /\ Truthy(DictGet(ItemOf(answer.content.v, "pagination").v, "next_uri"))

\* The script is complete when its last answer ends the walk of _get.
Complete == Len(answers) > 0 /\ ~IsNextPage(answers[Len(answers)])

InitClient ==
  /\ answers = <<>> /\ outcome = NoResult
  /\ IdleBuild /\ IdleAttr /\ IdleHeap /\ IdleTokens

\* The server prepares its next answer: a JSON envelope under any status.
\* Pages with more to come carry neither OAuth error fields nor warnings.
AnswerJson ==
  /\ outcome = NoResult
  /\ answers = <<>> \/ ~Complete
  /\ \E status \in StatusCodes, body \in JsonBodies(Len(answers) + 1) :
       LET answer == Response(status, body)
       IN  /\ IsNextPage(answer) =>
                /\ Len(answers) < MaxPages
                /\ ~HasKey(body.v, "error") /\ ~HasKey(body.v, "warnings")
           /\ answers' = Append(answers, answer)
  /\ UNCHANGED <<outcome, notClientVars>>

\* The server prepares an answer without content.
AnswerEmpty ==
  /\ outcome = NoResult
  /\ answers = <<>> \/ ~Complete
  /\ \E status \in StatusCodes :
       answers' = Append(answers, Response(status, EmptyBody))
  /\ UNCHANGED <<outcome, notClientVars>>

\* A gateway in front of the server answers with an error page.
AnswerText ==
  /\ outcome = NoResult
  /\ answers = <<>> \/ ~Complete
  /\ \E status \in StatusCodes :
       /\ FirstDigit(status) # 2
       /\ answers' = Append(answers, Response(status, NotJson))
  /\ UNCHANGED <<outcome, notClientVars>>

\* What an API call leaves behind: what it returned or raised (out), the
\* response its request helper returned (Null if it raised or was not
\* reached), the method and the number of the requests sent ("None" and 0
\* if none was) and the user warnings emitted.
Outcome(call, params, out, response, method, sent, warned) ==
  [call |-> call, params |-> params, out |-> out, response |-> response,
   method |-> method, sent |-> sent, warned |-> warned]

\* "response = <helper>(...); return self._make_api_object(response, model)"
MakeFrom(call, params, got, model_type) ==
  IF IsRaised(got.out)
    THEN Outcome(call, params, got.out, Null, got.method, got.sent, <<>>)
    ELSE LET made == _make_api_object(TheClient, got.out, model_type)
         IN  Outcome(call, params, made.out, got.out, got.method, got.sent,
                     made.warned)

\* The request helper _get called on its own.
Get ==
  /\ outcome = NoResult /\ Complete
  /\ LET got == _get(answers, 1, <<>>)
     IN  outcome' = Outcome("_get", {}, got.out,
                            IF IsRaised(got.out) THEN Null ELSE got.out,
                            got.method, got.sent, <<>>)
  /\ UNCHANGED <<answers, notClientVars>>

\* The request helpers _post, _put and _delete called on their own.
Post ==
  /\ outcome = NoResult /\ Len(answers) = 1
  /\ \E got \in {_post(answers[1]), _put(answers[1]), _delete(answers[1])} :
       outcome' = Outcome("_" \o got.method, {}, got.out,
                          IF IsRaised(got.out) THEN Null ELSE got.out,
                          got.method, got.sent, <<>>)
  /\ UNCHANGED <<answers, notClientVars>>

\* Client.get_accounts()
get_accounts ==
  /\ outcome = NoResult /\ Complete
  /\ outcome' = MakeFrom("get_accounts", {}, _get(answers, 1, <<>>), "Account")
  /\ UNCHANGED <<answers, notClientVars>>

\* Client.get_account(account_id)
get_account ==
  /\ outcome = NoResult /\ Complete
  /\ outcome' = MakeFrom("get_account", {}, _get(answers, 1, <<>>), "Account")
  /\ UNCHANGED <<answers, notClientVars>>

\* Client.delete_account(account_id)
delete_account ==
  /\ outcome = NoResult /\ Len(answers) = 1
  /\ LET got == _delete(answers[1])
     IN  outcome' = Outcome("delete_account", {},
                            IF IsRaised(got.out) THEN got.out ELSE Null,
                            IF IsRaised(got.out) THEN Null ELSE got.out,
                            got.method, got.sent, <<>>)
  /\ UNCHANGED <<answers, notClientVars>>

\* Client.send_money(account_id, **params): params is the set of parameter
\* names the caller passes.
SendMoneyRequired == <<"to", "amount", "currency">>
send_money ==
  /\ outcome = NoResult /\ Len(answers) = 1
  /\ \E params \in SUBSET SeqRange(SendMoneyRequired) :
       outcome' =
         IF \E i \in 1..Len(SendMoneyRequired) : SendMoneyRequired[i] \notin params
           THEN Outcome("send_money", params, Raised("ValueError"), Null,
                        "None", 0, <<>>)
           ELSE MakeFrom("send_money", params, _post(answers[1]), "Transaction")
  /\ UNCHANGED <<answers, notClientVars>>

NextClient ==
  \/ AnswerJson \/ AnswerEmpty \/ AnswerText
  \/ Get \/ Post \/ get_accounts \/ get_account \/ delete_account \/ send_money

SpecClient == InitClient /\ [][NextClient]_vars

----------------------------------------------------------------------------
(* A caller assigning to and deleting from a container: SpecAttr *)

\* How many operations the caller makes.
MaxOps == 3

\* Names the caller uses: a private one, a plain one, the key that backs
\* indexing, the name of a property and the name of a dict method.
Names == {"_test", "test", "data", "response", "items"}
Values == {IntVal(1), IntVal(2)}

\* An operation of the caller and the exception it raised ("None" if none).
Op(op, key, value, raised) ==
  [op |-> op, key |-> key, value |-> value, raised |-> raised]

InitAttr ==
  /\ container \in
       {new_api_object(TheClient, o, "None", SomeKwargs) :
          o \in {Dict(<<>>), Dict(<< <<"test", IntVal(1)>> >>)}}
  /\ ops = 0 /\ last = NoResult
  /\ IdleBuild /\ IdleClient /\ IdleHeap /\ IdleTokens

\* container.<key> = value
SetAttribute ==
  /\ ops < MaxOps
  /\ \E key \in Names, value \in Values :
       /\ container' = SetAttr(container, key, value)
       /\ last' = Op("setattr", key, value, "None")
  /\ ops' = ops + 1
  /\ UNCHANGED notAttrVars

\* container[key] = value
SetKey ==
  /\ ops < MaxOps
  /\ \E key \in Names, value \in Values :
       /\ container' = SetItem(container, key, value)
       /\ last' = Op("setitem", key, value, "None")
  /\ ops' = ops + 1
  /\ UNCHANGED notAttrVars

\* del container.<key>
DelAttribute ==
  /\ ops < MaxOps
  /\ \E key \in Names :
       LET after == DelAttr(container, key)
       IN  /\ container' = IF IsRaised(after) THEN container ELSE after
           /\ last' = Op("delattr", key, Null,
                         IF IsRaised(after) THEN after.exc ELSE "None")
  /\ ops' = ops + 1
  /\ UNCHANGED notAttrVars

\* del container[key]
DelKey ==
  /\ ops < MaxOps
  /\ \E key \in Names :
       LET after == DelItem(container, key)
       IN  /\ container' = IF IsRaised(after) THEN container ELSE after
           /\ last' = Op("delitem", key, Null,
                         IF IsRaised(after) THEN after.exc ELSE "None")
  /\ ops' = ops + 1
  /\ UNCHANGED notAttrVars

\* getattr(container, key); hasattr(container, key) is whether it succeeds.
GetAttribute ==
  /\ ops < MaxOps
  /\ \E key \in Names :
       LET value == AttrValue(container, key)
       IN  last' = IF IsRaised(value) THEN Op("getattr", key, Null, value.exc)
                   ELSE Op("getattr", key, value, "None")
  /\ ops' = ops + 1
  /\ UNCHANGED <<container, notAttrVars>>

\* container[key]
GetKey ==
  /\ ops < MaxOps
  /\ \E key \in Names :
       LET value == GetItem(container, StrKey(key))
       IN  last' = IF IsRaised(value) THEN Op("getitem", key, Null, value.exc)
                   ELSE Op("getitem", key, value, "None")
  /\ ops' = ops + 1
  /\ UNCHANGED <<container, notAttrVars>>

NextAttr ==
  \/ SetAttribute \/ SetKey \/ DelAttribute \/ DelKey
  \/ GetAttribute \/ GetKey

SpecAttr == InitAttr /\ [][NextAttr]_vars

----------------------------------------------------------------------------
(* In-place updates of wallet objects: SpecUpdate *)

\* A reference to the object at an address of the heap.
Addr(n) == [t |-> "addr", v |-> n]

\* dict.update(other): the keys of other, in its order, set one by one.
RECURSIVE DictUpdate(_, _, _)
DictUpdate(pairs, other, i) ==
  IF i > Len(other) THEN pairs
  ELSE DictUpdate(DictSetItem(pairs, other[i][1], other[i][2]), other, i + 1)

\* An update that merges into a copy and leaves the receiver as it was.
UpdateCopy(h, self, data) ==
  Append(h, [h[self] EXCEPT !.v = DictUpdate(@, h[data].v, 1)])

\* An update that makes the receiver a copy of the fresh object.
UpdateReplacing(h, self, data) == [h EXCEPT ![self] = h[data]]

\* self.update(data), on the objects at the addresses self and data.
UpdateInPlace(h, self, data) ==
  [h EXCEPT ![self] = [@ EXCEPT !.v = DictUpdate(@, h[data].v, 1)]]

\* "self.update(data); return data" for what the client call made: the heap
\* after it and the reference returned, or the exception raised.
UpdateWith(h, self, made) ==
  IF IsRaised(made)
    THEN [heap |-> h, out |-> made]
    ELSE LET h2 == Append(h, made)
         IN  [heap |-> UpdateInPlace(h2, self, Len(h2)), out |-> Addr(Len(h2))]

\* The answer to the one request of a call, through a request helper and
\* _make_api_object.
MadeBy(got, model_type) ==
  IF IsRaised(got.out) THEN got.out
  ELSE _make_api_object(TheClient, got.out, model_type).out

\* APIObject.refresh
Refresh(h, self, script) ==
  LET url == IF GetAttr(h[self], "resource_path").via = "AttributeError"
               THEN Null ELSE AttrValue(h[self], "resource_path")
  IN  IF ~Truthy(url) THEN [heap |-> h, out |-> Raised("ValueError")]
      ELSE UpdateWith(h, self, MadeBy(_get(script, 1, <<>>), h[self].cls))

\* Account.set_primary and Account.modify: got is what the helper of
\* Client.set_primary_account (_post) or Client.update_account (_put) got.
AccountUpdate(h, self, got) ==
  LET id == AttrValue(h[self], "id")
  IN  IF IsRaised(id) THEN [heap |-> h, out |-> id]
      ELSE UpdateWith(h, self, MadeBy(got, "Account"))

\* Order.refund(**params) through Client.refund_order
OrderRefund(h, self, script, params) ==
  LET id == AttrValue(h[self], "id")
  IN  IF IsRaised(id) THEN [heap |-> h, out |-> id]
      ELSE IF "currency" \notin params
        THEN [heap |-> h, out |-> Raised("ValueError")]
      ELSE UpdateWith(h, self, MadeBy(_post(script[1]), "Order"))

\* Transfer.commit
TransferCommit(h, self, script) ==
  LET path == AttrValue(h[self], "resource_path")
  IN  IF IsRaised(path) THEN [heap |-> h, out |-> path]
      ELSE UpdateWith(h, self, MadeBy(_post(script[1]), h[self].cls))

\* CurrentUser.modify through Client.update_current_user
CurrentUserModify(h, self, script) ==
  UpdateWith(h, self, MadeBy(_put(script[1]), "CurrentUser"))

\* What the receiver holds before the call.
ReceiverPayloads ==
  {Dict(<<>>),
   Dict(<< <<"id", IntVal(1)>>, <<"name", StrVal("old")>> >>),
   Dict(<< <<"resource_path", StrVal("/p")>>, <<"name", StrVal("old")>> >>),
   Dict(<< <<"id", IntVal(1)>>, <<"resource_path", StrVal("/p")>>,
           <<"name", StrVal("old")>>, <<"stale", IntVal(1)>> >>)}
ReceiverClasses == {"APIObject", "Account", "Order", "Buy", "CurrentUser"}

\* What the server may answer to the request of an update.
FreshPayloads ==
  {<<>>,
   << <<"data", Dict(<< <<"name", StrVal("new")>> >>)>> >>,
   << <<"data", Dict(<< <<"id", IntVal(2)>>, <<"name", StrVal("new")>>,
                       <<"extra", IntVal(1)>> >>)>> >>,
   << <<"data", List(<<Item(1)>>)>> >>}
UpdateAnswers ==
  {Response(status, Dict(p \o e)) :
     status \in {200, 201, 404}, p \in FreshPayloads,
     e \in {<<>>, << <<"errors", List(<<Dict(<< <<"id", StrVal("not_found")>>,
                                  <<"message", StrVal("m")>> >>)>>)>> >>}}
  \cup {Response(204, EmptyBody)}

InitUpdate ==
  /\ \E payload \in ReceiverPayloads, cls \in ReceiverClasses :
       heap = <<new_api_object(TheClient, payload, cls, NoKwargs)>>
  /\ held = [self |-> 1, alias |-> 1]
  /\ answers = <<>> /\ outcome = NoResult
  /\ IdleBuild /\ IdleAttr /\ IdleTokens

\* The server prepares its answer to the request of the update.
UpdateAnswer ==
  /\ answers = <<>>
  /\ \E answer \in UpdateAnswers : answers' = <<answer>>
  /\ UNCHANGED <<outcome, heapVars, buildVars, attrVars, tokens>>

\* The caller's call made through the name self: the heap and the outcome
\* it leaves.
Updated(call, params, after) ==
  /\ heap' = after.heap
  /\ outcome' = [call |-> call, params |-> params, out |-> after.out]
  /\ UNCHANGED <<answers, held, buildVars, attrVars, tokens>>

\* self.refresh()
refresh ==
  /\ outcome = NoResult /\ Len(answers) = 1
  /\ Updated("refresh", {}, Refresh(heap, held.self, answers))

\* self.set_primary()
Account_set_primary ==
  /\ outcome = NoResult /\ Len(answers) = 1
  /\ heap[held.self].cls = "Account"
  /\ Updated("set_primary", {},
             AccountUpdate(heap, held.self, _post(answers[1])))

\* self.modify(name=...)
Account_modify ==
  /\ outcome = NoResult /\ Len(answers) = 1
  /\ heap[held.self].cls = "Account"
  /\ Updated("modify", {"name"},
             AccountUpdate(heap, held.self, _put(answers[1])))

\* self.refund(**params)
Order_refund ==
  /\ outcome = NoResult /\ Len(answers) = 1
  /\ heap[held.self].cls = "Order"
  /\ \E params \in SUBSET {"currency"} :
       Updated("refund", params, OrderRefund(heap, held.self, answers, params))

\* self.commit()
Transfer_commit ==
  /\ outcome = NoResult /\ Len(answers) = 1
  /\ heap[held.self].cls = "Buy"
  /\ Updated("commit", {}, TransferCommit(heap, held.self, answers))

\* self.modify(name=...) on the current user
CurrentUser_modify ==
  /\ outcome = NoResult /\ Len(answers) = 1
  /\ heap[held.self].cls = "CurrentUser"
  /\ Updated("modify", {"name"}, CurrentUserModify(heap, held.self, answers))

NextUpdate ==
  \/ UpdateAnswer \/ refresh \/ Account_set_primary \/ Account_modify
  \/ Order_refund \/ Transfer_commit \/ CurrentUser_modify

SpecUpdate == InitUpdate /\ [][NextUpdate]_vars

----------------------------------------------------------------------------
(* Client methods that check their parameters before the request: SpecParams *)

\* The parameter names a caller may pass.
ParamNames == {"to", "amount", "total", "currency", "payment_method", "name"}

\* A call that sends its POST without looking at the parameters.
RequiredCallUnchecked(call, params, required, script, model_type) ==
  MakeFrom(call, params, _post(script[1]), model_type)

\* "for required in [...]: if required not in params: raise ValueError",
\* then the POST and _make_api_object.
RequiredCall(call, params, required, script, model_type) ==
  IF \E i \in 1..Len(required) : required[i] \notin params
    THEN Outcome(call, params, Raised("ValueError"), Null, "None", 0, <<>>)
    ELSE MakeFrom(call, params, _post(script[1]), model_type)

\* Client.buy and Client.sell: 'amount' or 'total', then the required ones.
AmountOrTotalCall(call, params, required, script, model_type) ==
  IF "amount" \notin params /\ "total" \notin params
    THEN Outcome(call, params, Raised("ValueError"), Null, "None", 0, <<>>)
    ELSE RequiredCall(call, params, required, script, model_type)

InitParams ==
  /\ \E answer \in UpdateAnswers : answers = <<answer>>
  /\ outcome = NoResult
  /\ IdleBuild /\ IdleAttr /\ IdleHeap /\ IdleTokens

\* Client.transfer_money(..., **params)
transfer_money ==
  /\ outcome = NoResult /\ Len(answers) = 1
  /\ \E params \in SUBSET ParamNames :
       outcome' = RequiredCall("transfer_money", params,
                               <<"to", "amount", "currency">>,
                               answers, "Transaction")
  /\ UNCHANGED <<answers, notClientVars>>

\* Client.request_money(..., **params)
request_money ==
  /\ outcome = NoResult /\ Len(answers) = 1
  /\ \E params \in SUBSET ParamNames :
       outcome' = RequiredCall("request_money", params,
                               <<"to", "amount", "currency">>,
                               answers, "Transaction")
  /\ UNCHANGED <<answers, notClientVars>>

\* Client.deposit(..., **params)
deposit ==
  /\ outcome = NoResult /\ Len(answers) = 1
  /\ \E params \in SUBSET ParamNames :
       outcome' = RequiredCall("deposit", params,
                               <<"payment_method", "amount", "currency">>,
                               answers, "Deposit")
  /\ UNCHANGED <<answers, notClientVars>>

\* Client.withdraw(..., **params)
withdraw ==
  /\ outcome = NoResult /\ Len(answers) = 1
  /\ \E params \in SUBSET ParamNames :
       outcome' = RequiredCall("withdraw", params,
                               <<"payment_method", "amount", "currency">>,
                               answers, "Withdrawal")
  /\ UNCHANGED <<answers, notClientVars>>

\* Client.create_order(..., **params)
create_order ==
  /\ outcome = NoResult /\ Len(answers) = 1
  /\ \E params \in SUBSET ParamNames :
       outcome' = RequiredCall("create_order", params,
                               <<"amount", "currency", "name">>,
                               answers, "Order")
  /\ UNCHANGED <<answers, notClientVars>>

\* Client.create_checkout(..., **params)
create_checkout ==
  /\ outcome = NoResult /\ Len(answers) = 1
  /\ \E params \in SUBSET ParamNames :
       outcome' = RequiredCall("create_checkout", params,
                               <<"amount", "currency", "name">>,
                               answers, "Checkout")
  /\ UNCHANGED <<answers, notClientVars>>

\* Client.refund_order(..., **params)
refund_order ==
  /\ outcome = NoResult /\ Len(answers) = 1
  /\ \E params \in SUBSET ParamNames :
       outcome' = RequiredCall("refund_order", params,
                               <<"currency">>,
                               answers, "Order")
  /\ UNCHANGED <<answers, notClientVars>>

\* Client.buy(account_id, **params)
buy ==
  /\ outcome = NoResult /\ Len(answers) = 1
  /\ \E params \in SUBSET ParamNames :
       outcome' = AmountOrTotalCall("buy", params,
                                    <<"currency", "payment_method">>,
                                    answers, "Buy")
  /\ UNCHANGED <<answers, notClientVars>>

\* Client.sell(account_id, **params)
sell ==
  /\ outcome = NoResult /\ Len(answers) = 1
  /\ \E params \in SUBSET ParamNames :
       outcome' = AmountOrTotalCall("sell", params, <<"currency">>,
                                    answers, "Sell")
  /\ UNCHANGED <<answers, notClientVars>>

NextParams ==
  \/ send_money \/ transfer_money \/ request_money \/ deposit \/ withdraw
  \/ create_order \/ create_checkout \/ refund_order \/ buy \/ sell

SpecParams == InitParams /\ [][NextParams]_vars

----------------------------------------------------------------------------
(* Claims about new_api_object, checked under Spec *)

Called == result # NoResult
Returned == Called /\ ~IsRaised(result)

\* No key of x, at any depth, is the name of an identity attribute.
RECURSIVE NoIdentityCollision(_)
NoIdentityCollision(x) ==
  IF x.t = "dict"
    THEN /\ KeysOf(x.v) \cap Properties = {}
         /\ \A i \in 1..Len(x.v) : NoIdentityCollision(x.v[i][2])
  ELSE IF x.t = "list" THEN \A i \in 1..Len(x.v) : NoIdentityCollision(x.v[i])
  ELSE TRUE

\* C1: for every JSON object o whose keys collide with no identity attribute,
\* new_api_object(client, o, cls, **identity) returns an object equal to o as
\* a mapping, whose json.dumps(sort_keys=True) is that of o, whatever cls and
\* identity arguments are passed, and equal to every other object
\* materialized from o.
C1_RoundTrip ==
  (Called /\ obj.t = "dict" /\ NoIdentityCollision(obj)) =>
    /\ ~IsRaised(result)
    /\ PyEq(result, obj)
    /\ JsonDumps(result) = JsonDumps(obj)
    /\ \A cls \in Classes, kwargs \in {NoKwargs, SomeKwargs} :
         PyEq(result, new_api_object(TheClient, obj, cls, kwargs))

\* C2: for every key k of every container of a tree new_api_object returned,
\* getattr(container, k) succeeds and yields the very object container[k]
\* yields: the lookup ends in the mapping slot of k.
C2_DualAccess ==
  Returned =>
    \A c \in Containers(result) : \A k \in KeysOf(c.v) :
      /\ GetAttr(c, k).via = "item"
      /\ AttrValue(c, k) = GetItem(c, StrKey(k))

\* The classes of a materialized tree, node by node.
RECURSIVE ClassTree(_)
ClassTree(x) ==
  IF x.t = "o"
    THEN [n |-> "mapping", cls |-> x.cls,
          kids |-> [i \in 1..Len(x.v) |-> <<x.v[i][1], ClassTree(x.v[i][2])>>]]
  ELSE IF x.t = "list"
    THEN [n |-> "list", kids |-> [i \in 1..Len(x.v) |-> ClassTree(x.v[i])]]
  ELSE [n |-> "scalar"]

\* The class C3 states for a mapping resolved without cls.
TableClass(pairs) ==
  LET resource == DictGet(pairs, "resource")
  IN  IF resource.t = "str" /\ resource.v \in DOMAIN _resource_to_model
        THEN _resource_to_model[resource.v]
      ELSE IF KeysLookup(1, KeysOf(pairs)) # "None"
        THEN KeysLookup(1, KeysOf(pairs))
      ELSE "APIObject"

\* The classes C3 states for the tree of x: cls is the caller's cls when the
\* node is the root or an element of the root list, "None" otherwise.
RECURSIVE ClaimedTree(_, _, _)
ClaimedTree(x, cls, is_root) ==
  IF x.t = "dict"
    THEN [n |-> "mapping",
          cls |-> IF cls # "None" THEN cls ELSE TableClass(x.v),
          kids |-> [i \in 1..Len(x.v) |->
                      <<x.v[i][1], ClaimedTree(x.v[i][2], "None", FALSE)>>]]
  ELSE IF x.t = "list"
    THEN [n |-> "list",
          kids |-> [i \in 1..Len(x.v) |->
                      ClaimedTree(x.v[i], IF is_root THEN cls ELSE "None", FALSE)]]
  ELSE [n |-> "scalar"]

\* C3: new_api_object gives each mapping node cls when cls is supplied and the
\* node is the root mapping or an element of the root list; otherwise the
\* _resource_to_model entry of its 'resource' value when that is mapped;
\* otherwise the first _obj_keys_to_model entry whose keys it holds; otherwise
\* APIObject.
C3_ClassOfEachNode ==
  Called => (~IsRaised(result) /\ ClassTree(result) = ClaimedTree(obj, arg_cls, TRUE))

AllClasses ==
  {"APIObject", "Account", "Notification", "Address", "Checkout", "Merchant",
   "Money", "Order", "PaymentMethod", "Transaction", "Report", "Transfer",
   "Buy", "Sell", "Deposit", "Withdrawal", "User", "CurrentUser"}

\* y has the shape of the JSON value x: a mapping became an APIObject with the
\* same keys, a list a list of the same length and order, a scalar itself.
RECURSIVE SameShape(_, _)
SameShape(x, y) ==
  IF x.t = "dict"
    THEN /\ y.t = "o" /\ y.cls \in AllClasses
         /\ KeysOf(y.v) = KeysOf(x.v) /\ Len(y.v) = Len(x.v)
         /\ \A k \in KeysOf(x.v) : SameShape(ItemOf(x.v, k), ItemOf(y.v, k))
  ELSE IF x.t = "list"
    THEN /\ y.t = "list" /\ Len(y.v) = Len(x.v)
         /\ \A i \in 1..Len(x.v) : SameShape(x.v[i], y.v[i])
  ELSE y = x

\* C4: for any JSON value v, new_api_object(client, v) returns a tree of the
\* same shape: every mapping an APIObject (or subclass) with exactly the same
\* keys, every list a list of the same length and order, every scalar
\* unchanged.
C4_SameShape == Called => SameShape(obj, result)

IndexKeys == {IntKey(i) : i \in -MaxIndex..MaxIndex}
SliceBounds == {Null} \cup {IntVal(i) : i \in -MaxIndex..MaxIndex}
SliceKeys ==
  {Slice(start, stop, step) : start \in SliceBounds, stop \in SliceBounds,
                              step \in SliceBounds}
HasDataList(c) == HasKey(c.v, "data") /\ IsList(ItemOf(c.v, "data"))

\* C9: if a container holds a key 'data' whose value is a list L, then
\* container[i] is L[i] for every integer i and container[s] is L[s] for
\* every slice s, an index out of range failing as it fails on L; a string
\* key is looked up in the mapping; without a 'data' list, an integer index
\* raises KeyError.
C9_PagedIndex ==
  Returned =>
    \A c \in Containers(result) :
      /\ HasDataList(c) =>
           \A key \in IndexKeys \cup SliceKeys :
             GetItem(c, key) = ListGet(ItemOf(c.v, "data").v, key)
      /\ \A k \in Keys : GetItem(c, StrKey(k)) = DictGetItem(c.v, StrKey(k))
      /\ ~HasDataList(c) =>
           \A key \in IndexKeys : GetItem(c, key) = Raised("KeyError")

\* A container whose 'data' list has two different elements was indexed:
\* [0] is the first, [-1] the last, and [::-1] is the list reversed.
C9_Witness ==
  /\ Returned /\ result.t = "o" /\ HasDataList(result)
  /\ LET L == ItemOf(result.v, "data").v
     IN  /\ Len(L) = 2 /\ L[1] # L[2]
         /\ GetItem(result, IntKey(0)) = L[1]
         /\ GetItem(result, IntKey(-1)) = L[2]
         /\ GetItem(result, Slice(Null, Null, Null)) = List(L)
         /\ GetItem(result, Slice(Null, Null, IntVal(-1))) = List(<<L[2], L[1]>>)
         /\ GetItem(result, IntKey(2)) = Raised("IndexError")

----------------------------------------------------------------------------
(* Claims about errors and the request helpers, checked under SpecClient *)

Helpers == {"_get", "_post", "_put", "_delete"}
ApiCalls == {"get_accounts", "get_account", "delete_account", "send_money"}
Made == outcome # NoResult
\* The answer to the last request of the call.
LastAnswer == answers[outcome.sent]
HasJsonBody(answer) == answer.content.t = "dict"

\* The server's error identifier as the claim defines it: the 'id' of the
\* first entry of 'errors', or the top-level 'error' when there is no entry;
\* "" when the body gives none.
ServerErrorId(body) ==
  LET entries == IF HasKey(body, "errors") THEN ItemOf(body, "errors").v
                 ELSE <<>>
  IN  IF Len(entries) > 0
        THEN (IF HasKey(entries[1].v, "id")
                THEN ItemOf(entries[1].v, "id").v ELSE "")
      ELSE IF HasKey(body, "error") THEN ItemOf(body, "error").v
      ELSE ""

ClaimedErrorClass(answer) ==
  LET id == ServerErrorId(answer.content.v)
  IN  IF id \in DOMAIN _error_id_to_class THEN _error_id_to_class[id]
      ELSE IF answer.status_code \in DOMAIN _status_code_to_class
        THEN _status_code_to_class[answer.status_code]
      ELSE "APIError"

\* C5: build_api_error takes the class of the server's error identifier when
\* _error_id_to_class maps it, whatever the status code; only for an unmapped
\* identifier the class of the status code in _status_code_to_class; the
\* generic APIError when neither is mapped. A 401 with identifier
\* 'expired_token' gives ExpiredTokenError, not AuthenticationError. The same
\* holds of the error a request helper raises for a non-2xx answer.
C5_IdentifierFirst ==
  /\ \A i \in 1..Len(answers) :
       HasJsonBody(answers[i]) =>
         LET err == build_api_error(answers[i], Null)
         IN  /\ IsRaised(err)
             /\ err.exc = ClaimedErrorClass(answers[i])
             /\ (/\ answers[i].status_code = 401
                 /\ ServerErrorId(answers[i].content.v) = "expired_token")
                  => err.exc = "ExpiredTokenError"
  /\ (/\ Made /\ outcome.call \in Helpers /\ IsRaised(outcome.out)
      /\ HasJsonBody(LastAnswer))
       => outcome.out.exc = ClaimedErrorClass(LastAnswer)

\* A request helper raised ExpiredTokenError for a 401 answer.
C5_Witness ==
  /\ Made /\ outcome.call \in Helpers /\ IsRaised(outcome.out)
  /\ LastAnswer.status_code = 401
  /\ ServerErrorId(LastAnswer.content.v) = "expired_token"
  /\ outcome.out.exc = "ExpiredTokenError"

Is2xx(status_code) == status_code \in 200..299

MissingData ==
  /\ Made /\ outcome.call \in ApiCalls \ {"delete_account"}
  /\ outcome.response # Null
  /\ HasJsonBody(outcome.response)
  /\ ~HasKey(outcome.response.content.v, "data")

\* C7 as stated: for a 2xx response whose JSON body has no 'data' field,
\* _make_api_object raises the generic APIError carrying that response.
C7_GenericAPIError ==
  MissingData =>
    /\ IsRaised(outcome.out)
    /\ outcome.out.exc = "APIError"
    /\ outcome.out.response = outcome.response

\* C7, amended: for a 2xx response whose JSON body has no 'data' field,
\* _make_api_object raises an error of the APIError family carrying that
\* response and returns no object: the generic APIError, unless the body
\* names an error identifier mapped in _error_id_to_class, in which case the
\* class mapped to that identifier. No warning is emitted.
C7_MissingDataRaises ==
  MissingData =>
    /\ IsRaised(outcome.out)
    /\ outcome.out.exc \in APIErrorClasses
    /\ outcome.out.response = outcome.response
    /\ LET id == ServerErrorId(outcome.response.content.v)
       IN  outcome.out.exc = IF id \in DOMAIN _error_id_to_class
                               THEN _error_id_to_class[id] ELSE "APIError"
    /\ outcome.warned = <<>>

\* get_account got a 200 without 'data' whose first error entry is
\* 'expired_token', and raised ExpiredTokenError.
C7_Witness ==
  /\ MissingData /\ outcome.call = "get_account"
  /\ outcome.response.status_code = 200
  /\ IsRaised(outcome.out)
  /\ outcome.out.exc = "ExpiredTokenError"

\* C8: every exception that leaves an API call of the Client is an instance
\* of APIError, whatever the server answers and whatever arguments the
\* caller passes.
C8_AlwaysAPIError ==
  (Made /\ outcome.call \in ApiCalls /\ IsRaised(outcome.out)) =>
    outcome.out.exc \in APIErrorClasses

----------------------------------------------------------------------------
(* Claims about assignments to a container, checked under SpecAttr *)

\* The identity the containers of SpecAttr are constructed with.
GivenIdentity ==
  [api_client |-> TheClient, response |-> SomeKwargs.response,
   pagination |-> SomeKwargs.pagination, warnings |-> SomeKwargs.warnings]

\* C10: after any sequence of attribute assignments, key assignments and
\* deletions, an attribute whose name begins with '_' is not a mapping key;
\* an attribute just assigned under any other name is a mapping key whose
\* value both container.name and container[name] yield; the identity
\* attributes read as given at construction and their names are no keys.
C10_AttributesAndKeys ==
  /\ \A key \in Names :
       (StartsWithUnderscore(key) /\ HasKey(container.dict, key))
         => ~HasKey(container.v, key)
  /\ (last # NoResult /\ last.op = "setattr" /\ ~StartsWithUnderscore(last.key))
       => /\ HasKey(container.v, last.key)
          /\ GetItem(container, StrKey(last.key)) = last.value
          /\ AttrValue(container, last.key) = last.value
  /\ \A i \in 1..Len(IdentityNames) :
       /\ AttrValue(container, IdentityNames[i]) = GivenIdentity[IdentityNames[i]]
       /\ ~HasKey(container.v, IdentityNames[i])
       /\ ~HasKey(container.v, Mangled(IdentityNames[i]))

\* The operation just made found its key absent from the mapping.
KeyWasAbsent == last' # NoResult /\ ~HasKey(container.v, last'.key)

\* C11 as stated: for a key absent from the mapping, container[k] and
\* del container[k] raise KeyError, getattr and delattr raise AttributeError
\* (so hasattr is false), and the failed access leaves the contents as they
\* were.
C11_AbsentKeyAlwaysRaises ==
  [][(KeyWasAbsent /\ last'.op \in {"getattr", "getitem", "delattr", "delitem"})
       => /\ last'.raised = IF last'.op \in {"getitem", "delitem"}
                              THEN "KeyError" ELSE "AttributeError"
          /\ container' = container]_vars

\* Normal attribute lookup finds the name without asking the mapping: it is
\* a property or another attribute of the class, or is in the instance
\* __dict__.
FoundWithoutMapping(o, name) ==
  name \in Properties \cup ClassAttrs(o.cls) \/ HasKey(o.dict, name)

\* C11, amended: for a key absent from the mapping, container[k] and
\* del container[k] raise KeyError and delattr raises AttributeError;
\* getattr raises AttributeError (hasattr is false) unless normal attribute
\* lookup finds the name, in which case it succeeds with that attribute; the
\* contents are unchanged in every one of these cases.
C11_AbsentKey ==
  [][(KeyWasAbsent /\ last'.op \in {"getattr", "getitem", "delattr", "delitem"})
       => /\ last'.op \in {"getitem", "delitem"} => last'.raised = "KeyError"
          /\ last'.op = "delattr" => last'.raised = "AttributeError"
          /\ last'.op = "getattr" =>
               last'.raised = IF FoundWithoutMapping(container, last'.key)
                                THEN "None" ELSE "AttributeError"
          /\ container' = container]_vars

\* After its key was deleted, 'test' failed under attribute deletion with an
\* AttributeError.
C11_Witness ==
  /\ last # NoResult /\ last.op = "delattr" /\ last.key = "test"
  /\ last.raised = "AttributeError"
  /\ ~HasKey(container.v, "test")

----------------------------------------------------------------------------
(* Claims about in-place updates, checked under SpecUpdate *)

\* The update call returned the fresh object.
UpdateSucceeded == outcome # NoResult /\ outcome.out.t = "addr"

\* C12: after a successful refresh, set_primary, modify, refund or commit,
\* every key of the freshly fetched object is in the receiver with the fresh
\* value, every reference to the receiver sees it (the receiver is the same
\* object as before), and the object returned is the fresh one: a new
\* object, of the receiver's class and equal to the 'data' of the response
\* when that is a mapping.
C12_UpdateInPlace ==
  UpdateSucceeded =>
    LET fresh == heap[outcome.out.v]
        data == DictGet(answers[1].content.v, "data")
    IN  /\ held.self = 1 /\ held.alias = 1
        /\ \A name \in DOMAIN held :
             \A k \in KeysOf(fresh.v) :
               /\ HasKey(heap[held[name]].v, k)
               /\ ItemOf(heap[held[name]].v, k) = ItemOf(fresh.v, k)
        /\ outcome.out.v # held.self
        /\ IsDict(data) =>
             /\ PyEq(fresh, data)
             /\ fresh.cls = heap[held.self].cls

\* An account with name "old" and a key the server does not send was
\* modified: the alias sees the new name and identifier, and the old key.
C12_Witness ==
  /\ UpdateSucceeded /\ outcome.call = "modify"
  /\ heap[held.alias].cls = "Account"
  /\ DictGet(heap[held.alias].v, "name") = StrVal("new")
  /\ DictGet(heap[held.alias].v, "id") = IntVal(2)
  /\ DictGet(heap[held.alias].v, "stale") = IntVal(1)

----------------------------------------------------------------------------
(* Claims about parameter checks, checked under SpecParams *)

\* The required parameters the claim lists, by method.
ClaimedRequired ==
  [send_money |-> {"to", "amount", "currency"},
   transfer_money |-> {"to", "amount", "currency"},
   request_money |-> {"to", "amount", "currency"},
   deposit |-> {"payment_method", "amount", "currency"},
   withdraw |-> {"payment_method", "amount", "currency"},
   create_order |-> {"amount", "currency", "name"},
   create_checkout |-> {"amount", "currency", "name"},
   refund_order |-> {"currency"}]

\* C13: send_money, transfer_money, request_money, deposit, withdraw,
\* create_order, create_checkout and refund_order raise ValueError whenever
\* one of their required parameters is missing, and then no request has been
\* sent; when all are present exactly one request, a POST, has been sent.
C13_RequiredParams ==
  (Made /\ outcome.call \in DOMAIN ClaimedRequired) =>
    IF ClaimedRequired[outcome.call] \subseteq outcome.params
      THEN outcome.sent = 1 /\ outcome.method = "post"
      ELSE /\ outcome.out = Raised("ValueError")
           /\ outcome.sent = 0 /\ outcome.method = "None"

\* deposit was called without 'payment_method' and raised ValueError before
\* any request.
C13_Witness ==
  /\ Made /\ outcome.call = "deposit"
  /\ outcome.params = {"amount", "currency"}
  /\ outcome.out = Raised("ValueError") /\ outcome.sent = 0

\* C14: buy and sell raise ValueError when neither 'amount' nor 'total' is
\* passed; with 'amount' alone or 'total' alone they send the request and,
\* the server answering 2xx with a payload, return a Buy (a Sell) equal to
\* the payload.
C14_AmountOrTotal ==
  (Made /\ outcome.call \in {"buy", "sell"}) =>
    /\ outcome.params \cap {"amount", "total"} = {} =>
         outcome.out = Raised("ValueError") /\ outcome.sent = 0
    /\ outcome.params \in {{"amount"}, {"total"}} =>
         /\ outcome.sent = 1
         /\ LET data == DictGet(answers[1].content.v, "data")
            IN  (Is2xx(answers[1].status_code) /\ IsDict(data)) =>
                  /\ outcome.out.t = "o"
                  /\ outcome.out.cls = IF outcome.call = "buy" THEN "Buy"
                                       ELSE "Sell"
                  /\ PyEq(outcome.out, data)

----------------------------------------------------------------------------
(* coinbase/model.py: the legacy APIObject and its load *)

\* JSON true and false.
Bool(b) == [t |-> "bool", v |-> b]

\* The object reached from the root of a loaded tree by a path of keys and
\* list indices: how an object of the tree refers to another one of it.
PathRef(path) == [t |-> "path", v |-> path]

LegacyUnnesters ==
  [addresses |-> "address", orders |-> "order",
   payment_methods |-> "payment_method", transactions |-> "transaction",
   transfers |-> "transfer"]

LegacyKeyToModel ==
  [account |-> "Account", accounts |-> "Account", addresses |-> "Address",
   balance |-> "Money", button |-> "Button", buttons |-> "Button",
   contact |-> "Contact", contacts |-> "Contact", current_user |-> "User",
   native_balance |-> "Money", order |-> "Order", orders |-> "Order",
   payment_method |-> "PaymentMethod", payment_methods |-> "PaymentMethod",
   recipient |-> "User", sender |-> "User", transaction |-> "Transaction",
   transactions |-> "Transaction", transfer |-> "Transfer",
   transfers |-> "Transfer", user |-> "User"]

LegacyObjKeysToModel ==
  << [keys |-> {"address", "callback_url", "label"}, model |-> "Address"],
     [keys |-> {"amount", "currency"}, model |-> "Money"] >>

\* The scan of the key-set table in its order, from entry i on.
RECURSIVE LegacyKeysLookup(_, _)
LegacyKeysLookup(i, obj_keys) ==
  IF i > Len(LegacyObjKeysToModel) THEN "None"
  ELSE IF LegacyObjKeysToModel[i].keys \subseteq obj_keys
    THEN LegacyObjKeysToModel[i].model
    ELSE LegacyKeysLookup(i + 1, obj_keys)

\* The class load gives a mapping met under key ("None" for no key): the
\* entry of the key, else the first key-set match, else APIObject.
LegacyModelClass(key, pairs) ==
  IF key \in DOMAIN LegacyKeyToModel THEN LegacyKeyToModel[key]
  ELSE LET matched == LegacyKeysLookup(1, KeysOf(pairs))
       IN  IF matched = "None" THEN "APIObject" ELSE matched

\* An unnesting that leaves every value as it is.
LegacyKeepNested(key, value) == value

\* unnest(inner)(value) for the key's unnester, the value itself without one.
LegacyUnnest(key, value) ==
  IF key \notin DOMAIN LegacyUnnesters THEN value
  ELSE IF HasKey(value.v, LegacyUnnesters[key])
    THEN ItemOf(value.v, LegacyUnnesters[key])
    ELSE Raised("KeyError")

\* APIObject.__init__(api_client, account=, paged_key=)
LegacyObject(cls, api_client, account, paged_key) ==
  [t |-> "o", cls |-> cls,
   dict |-> << <<Mangled("api_client"), api_client>>,
               <<Mangled("account"), account>>,
               <<Mangled("paged_key"), paged_key>> >>,
   v |-> <<>>]

\* An account property that no class overrides.
LegacyAccountGiven(o, where) == ItemOf(o.dict, Mangled("account"))

\* The account property: Account returns itself (here, a reference to
\* where it is), every other class the account it was constructed with.
LegacyAccountOf(o, where) ==
  IF o.cls = "Account" THEN where ELSE ItemOf(o.dict, Mangled("account"))

\* APIObject.load(value, key, store=False, account): what it returns, or the
\* exception that leaves it. self_account is self.account, path the place of
\* the value in the tree being loaded, paged_key the keyword argument passed
\* down to every constructor.
RECURSIVE LegacyLoad(_, _, _, _, _, _)
RECURSIVE LegacyLoadItems(_, _, _, _, _, _)
RECURSIVE LegacyLoadList(_, _, _, _, _, _, _)
LegacyLoad(self_account, value, key, account, path, paged_key) ==
  LET acct == IF account = Null THEN self_account ELSE account
  IN  IF value.t = "dict"
        THEN LET model_class == LegacyModelClass(key, value.v)
                 inner == LegacyUnnest(key, value)
                 instance ==
                   LegacyObject(model_class, TheClient, acct, paged_key)
             IN  IF IsRaised(inner) THEN inner
                 ELSE IF inner.t # "dict" THEN Raised("AttributeError")
                 ELSE LegacyLoadItems(instance, inner.v, 1, acct, path,
                                      paged_key)
      ELSE IF value.t = "list"
        THEN LegacyLoadList(self_account, value.v, 1, key, acct, path,
                            paged_key)
      ELSE value

\* "for k, v in six.iteritems(value): instance.load(value=v, key=k,
\* store=True, ...)" from the i-th item on: the instance filled, or the
\* exception of an item.
LegacyLoadItems(instance, pairs, i, account, path, paged_key) ==
  IF i > Len(pairs) THEN instance
  ELSE LET k == pairs[i][1]
           child == LegacyLoad(LegacyAccountOf(instance, PathRef(path)),
                               pairs[i][2], k, account,
                               Append(path, [t |-> "str", v |-> k]),
                               paged_key)
       IN  IF IsRaised(child) THEN child
           ELSE LegacyLoadItems(
                  IF k # "" THEN SetItem(instance, k, child) ELSE instance,
                  pairs, i + 1, account, path, paged_key)

\* "list(imap(partial(self.load, key=key, store=False, account=account),
\* value))" from the i-th element on.
LegacyLoadList(self_account, items, i, key, account, path, paged_key) ==
  IF i > Len(items) THEN List(<<>>)
  ELSE LET head == LegacyLoad(self_account, items[i], key, account,
                              Append(path, [t |-> "int", v |-> i - 1]),
                              paged_key)
           tail == LegacyLoadList(self_account, items, i + 1, key, account,
                                  path, paged_key)
       IN  IF IsRaised(head) THEN head
           ELSE IF IsRaised(tail) THEN tail
           ELSE List(<<head>> \o tail.v)

\* The attributes a legacy class defines or inherits, properties aside.
LegacyProperties == {"api_client", "account"}
LegacyIdentity ==
  {Mangled("api_client"), Mangled("account"), Mangled("paged_key")}

\* getattr(o, name) on a legacy object held at the place where: a property
\* of the type first, then the instance __dict__, then the methods of dict
\* and of the class, and only then __getattr__, which reads the mapping.
LegacyGetAttr(o, name, where) ==
  IF name = "account" THEN LegacyAccountOf(o, where)
  ELSE IF name = "api_client" THEN ItemOf(o.dict, Mangled("api_client"))
  ELSE IF HasKey(o.dict, name) THEN ItemOf(o.dict, name)
  ELSE IF name \in DictMethods \cup {"load"} THEN Ref("method " \o name)
  ELSE IF HasKey(o.v, name) THEN ItemOf(o.v, name)
  ELSE Raised("AttributeError")

\* APIObject.__setattr__ of the legacy class
LegacySetAttr(o, key, value) ==
  IF key \in LegacyIdentity \/ HasKey(o.dict, key)
    THEN [o EXCEPT !.dict = DictSetItem(o.dict, key, value)]
    ELSE [o EXCEPT !.v = DictSetItem(o.v, key, value)]

----------------------------------------------------------------------------
(* coinbase/client.py and the endpoint methods of coinbase/model.py *)

\* Client._handle_response: 200 alone is a success.
LegacyHandleResponse(response) ==
  IF response.status_code = 200 THEN response
  ELSE IF response.status_code = 401 THEN Raised("AuthenticationError")
  ELSE Raised("APIError")

\* What a call leaves: the heap after it, what it returned or raised, and
\* the number of HTTP requests it issued.
Left(h, out, sent) == [heap |-> h, out |-> out, sent |-> sent]

\* "response = self.api_client._<method>(...); api_obj = self.load(
\* response.json())" on the object at address self: the api_obj, or the
\* exception raised on the way. One request is sent.
LegacySelfLoad(h, self, answer) ==
  LET response == LegacyHandleResponse(answer)
      json == IF IsRaised(response) THEN response ELSE ResponseJson(response)
  IN  IF IsRaised(json) THEN json
      ELSE LegacyLoad(LegacyAccountOf(h[self], Addr(self)), json, "None",
                      Null, <<>>, Null)

\* Client._make_api_object(response.json()) without an account: the load of
\* a generic root that has no account.
LegacyMakeApiObject(answer) ==
  LET response == LegacyHandleResponse(answer)
      json == IF IsRaised(response) THEN response ELSE ResponseJson(response)
  IN  IF IsRaised(json) THEN json
      ELSE LegacyLoad(Null, json, "None", Null, <<>>, Null)

\* Client._make_api_object(response.json(), account=account) for the
\* account at address self: the root is the account, or a generic one when
\* the account is empty, and the account is passed on to load.
LegacyMakeApiObjectFor(h, self, answer) ==
  LET response == LegacyHandleResponse(answer)
      json == IF IsRaised(response) THEN response ELSE ResponseJson(response)
      root == IF Truthy(h[self]) THEN LegacyAccountOf(h[self], Addr(self))
              ELSE Null
  IN  IF IsRaised(json) THEN json
      ELSE LegacyLoad(root, json, "None", Addr(self), <<>>, Null)

\* Button.get_orders on a button the account at address self materialized:
\* "return self.load(response.json(), paged_key='orders')".
LegacyButtonGetOrders(h, self, answer) ==
  LET button == LegacyObject("Button", TheClient,
                             LegacyAccountOf(h[self], Addr(self)), Null)
      response == LegacyHandleResponse(answer)
      json == IF IsRaised(response) THEN response ELSE ResponseJson(response)
  IN  IF IsRaised(json) THEN json
      ELSE LegacyLoad(LegacyAccountOf(button, PathRef(<<>>)), json, "None",
                      Null, <<>>, StrVal("orders"))

\* api_obj.get(key, default): a list or a scalar has no get.
LegacyGet(api_obj, key, default) ==
  IF api_obj.t = "o" THEN GetOr(api_obj.v, key, default)
  ELSE Raised("AttributeError")

\* isinstance(x, cls) for a legacy model class, none of which has subclasses.
IsInstance(x, cls) == x.t = "o" /\ x.cls = cls

\* A typed lookup that returns whatever is under the key.
LegacyUntyped(api_obj, key, cls) == LegacyGet(api_obj, key, Null)

\* "x = api_obj.get(key, None); if not isinstance(x, cls): raise
\* build_api_error(UnexpectedDataFormatError, ...)": x or the exception.
LegacyTyped(api_obj, key, cls) ==
  LET x == LegacyGet(api_obj, key, Null)
  IN  IF IsRaised(x) THEN x
      ELSE IF ~IsInstance(x, cls) THEN Raised("UnexpectedDataFormatError")
      ELSE x

\* "if not api_obj.get('success', False): raise build_api_error(APIError,
\* ...)": the exception, or Null when the check passes.
LegacySuccess(api_obj) ==
  LET success == LegacyGet(api_obj, "success", Bool(FALSE))
  IN  IF IsRaised(success) THEN success
      ELSE IF ~Truthy(success) THEN Raised("APIError")
      ELSE Null

\* Account.set_primary
LegacySetPrimary(h, self, answer) ==
  LET id == LegacyGetAttr(h[self], "id", Addr(self))
      api_obj == LegacySelfLoad(h, self, answer)
      success == LegacySuccess(api_obj)
  IN  IF IsRaised(id) THEN Left(h, id, 0)
      ELSE IF IsRaised(api_obj) THEN Left(h, api_obj, 1)
      ELSE IF IsRaised(success) THEN Left(h, success, 1)
      ELSE Left([h EXCEPT ![self] = LegacySetAttr(@, "primary", Bool(TRUE))],
                Null, 1)

\* A modify that merges what the server returned before it checks it.
LegacyMergeFirst(h, self, answer, key, cls) ==
  LET id == LegacyGetAttr(h[self], "id", Addr(self))
      api_obj == LegacySelfLoad(h, self, answer)
      success == LegacySuccess(api_obj)
      x == LegacyGet(api_obj, key, Null)
      merged == IF x.t = "o"
                  THEN [h EXCEPT ![self] =
                          [@ EXCEPT !.v = DictUpdate(@, x.v, 1)]]
                  ELSE h
  IN  IF IsRaised(id) THEN Left(h, id, 0)
      ELSE IF IsRaised(api_obj) THEN Left(h, api_obj, 1)
      ELSE IF IsRaised(success) THEN Left(merged, success, 1)
      ELSE IF ~IsInstance(x, cls)
        THEN Left(merged, Raised("UnexpectedDataFormatError"), 1)
      ELSE Left(merged, Null, 1)

\* The body that Account.modify and User.modify share once their request
\* data is encoded: "self.update(x)" for the x of class cls under key.
LegacyMerge(h, self, answer, key, cls) ==
  LET id == LegacyGetAttr(h[self], "id", Addr(self))
      api_obj == LegacySelfLoad(h, self, answer)
      success == LegacySuccess(api_obj)
      x == LegacyTyped(api_obj, key, cls)
  IN  IF IsRaised(id) THEN Left(h, id, 0)
      ELSE IF IsRaised(api_obj) THEN Left(h, api_obj, 1)
      ELSE IF IsRaised(success) THEN Left(h, success, 1)
      ELSE IF IsRaised(x) THEN Left(h, x, 1)
      ELSE Left([h EXCEPT ![self] = [@ EXCEPT !.v = DictUpdate(@, x.v, 1)]],
                Null, 1)

\* Account.modify(new_name)
LegacyAccountModify(h, self, answer) ==
  LegacyMerge(h, self, answer, "account", "Account")

\* User.modify(name=, native_currency=, time_zone=): fields are the
\* arguments given a true value.
LegacyUserModify(h, self, answer, fields) ==
  IF fields = {} THEN Left(h, Raised("ValueError"), 0)
  ELSE LegacyMerge(h, self, answer, "user", "User")

\* Account.get_transaction, get_transfer, get_order (needs_id) and
\* Account.get_button: the object of class cls under key.
LegacyEndpoint(h, self, answer, key, cls, needs_id) ==
  LET id == LegacyGetAttr(h[self], "id", Addr(self))
      api_obj == LegacySelfLoad(h, self, answer)
  IN  IF needs_id /\ IsRaised(id) THEN Left(h, id, 0)
      ELSE IF IsRaised(api_obj) THEN Left(h, api_obj, 1)
      ELSE Left(h, LegacyTyped(api_obj, key, cls), 1)

\* Client.get_account
LegacyGetAccount(h, answer) ==
  LET api_obj == LegacyMakeApiObject(answer)
  IN  IF IsRaised(api_obj) THEN Left(h, api_obj, 1)
      ELSE Left(h, LegacyTyped(api_obj, "account", "Account"), 1)

\* A get_balance that stores what it loaded under the receiver's 'balance'.
LegacyGetBalanceStoring(h, self, answer) ==
  LET id == LegacyGetAttr(h[self], "id", Addr(self))
      api_obj == LegacySelfLoad(h, self, answer)
  IN  IF IsRaised(id) THEN Left(h, id, 0)
      ELSE IF IsRaised(api_obj) THEN Left(h, api_obj, 1)
      ELSE Left([h EXCEPT ![self] = SetItem(@, "balance", api_obj)],
                api_obj, 1)

\* Account.get_balance: what the root-level load returns, as it is.
LegacyGetBalance(h, self, answer) ==
  LET id == LegacyGetAttr(h[self], "id", Addr(self))
  IN  IF IsRaised(id) THEN Left(h, id, 0)
      ELSE Left(h, LegacySelfLoad(h, self, answer), 1)

\* A guard that asks for some amount representation and allows several.
AmountGuardAtLeastOne(amount, amount_string, amount_currency_iso) ==
  ~(Truthy(amount) \/ (Truthy(amount_string) /\ Truthy(amount_currency_iso)))

\* The condition under which transfer_money, send_money and request_money
\* raise ValueError.
AmountGuard(amount, amount_string, amount_currency_iso) ==
  \/ ~(Truthy(amount)
       \/ (Truthy(amount_string) /\ Truthy(amount_currency_iso)))
  \/ (Truthy(amount)
      /\ (Truthy(amount_string) \/ Truthy(amount_currency_iso)))

\* Account.transfer_money, send_money and request_money, which differ in
\* the request they encode.
LegacyMoney(h, self, answer, amount, amount_string, amount_currency_iso) ==
  LET id == LegacyGetAttr(h[self], "id", Addr(self))
      api_obj == LegacySelfLoad(h, self, answer)
      success == LegacySuccess(api_obj)
  IN  IF AmountGuard(amount, amount_string, amount_currency_iso)
        THEN Left(h, Raised("ValueError"), 0)
      ELSE IF IsRaised(id) THEN Left(h, id, 0)
      ELSE IF IsRaised(api_obj) THEN Left(h, api_obj, 1)
      ELSE IF IsRaised(success) THEN Left(h, success, 1)
      ELSE Left(h, LegacyTyped(api_obj, "transaction", "Transaction"), 1)

----------------------------------------------------------------------------
(* The legacy library at work: SpecLegacy *)

\* The objects the caller calls methods on: an Account or a User, with or
\* without an id.
LegacyReceiverItems ==
  {<< <<"id", StrVal("fakeaccountid")>>, <<"name", StrVal("Wallet")>>,
      <<"primary", Null>> >>,
   << <<"id", StrVal("fakeaccountid")>>,
      <<"balance", Ref("initial_balance")>> >>,
   << <<"name", StrVal("Wallet")>> >>}
LegacyReceivers ==
  {[LegacyObject(cls, TheClient, Null, Null) EXCEPT !.v = items] :
     cls \in {"Account", "User"}, items \in LegacyReceiverItems}

\* The keys under which an endpoint method expects a typed object.
TypedKeys ==
  {"account", "user", "transaction", "transfer", "order", "button"}
\* What the server may put under such a key.
TypedValues ==
  {Dict(<< <<"id", StrVal("x1")>> >>),
   Dict(<< <<"name", StrVal("Vault")>>, <<"extra", IntVal(1)>> >>),
   StrVal("nottherighttype"),
   List(<<Dict(<< <<"id", StrVal("x1")>> >>)>>)}
SuccessParts ==
  {<<>>, << <<"success", Bool(TRUE)>> >>, << <<"success", Bool(FALSE)>> >>}

\* The wrapper of an inner object under the singular key of a plural one.
Wrapper(plural, inner) == Dict(<< <<LegacyUnnesters[plural], inner>> >>)
InnerObjects ==
  <<Dict(<< <<"address", StrVal("a1")>>, <<"label", StrVal("l")>> >>),
    Dict(<< <<"address", StrVal("a2")>> >>)>>
\* Bodies whose plural key holds a list of zero to two wrappers, and two
\* whose wrappers are not what the unnester expects.
PluralBodies ==
  {Dict(<< <<plural, List([i \in 1..n |-> Wrapper(plural, InnerObjects[i])])>>,
           <<"total_count", IntVal(n)>> >>) :
     plural \in DOMAIN LegacyUnnesters, n \in 0..2}
MalformedBodies ==
  {Dict(<< <<"addresses", List(<<Dict(<< <<"label", StrVal("l")>> >>)>>)>> >>),
   Dict(<< <<"addresses",
             List(<<Dict(<< <<"address", StrVal("a1")>> >>)>>)>> >>)}
TypedBodies ==
  {Dict(s \o e) :
     s \in SuccessParts,
     e \in {<<>>} \cup {<< <<k, x>> >> : k \in TypedKeys, x \in TypedValues}}

\* The balance of an account, as the server sends it.
BalanceBody ==
  Dict(<< <<"currency", StrVal("USD")>>, <<"amount", StrVal("10.00")>> >>)
\* A JSON object one of whose keys is the empty string.
EmptyKeyBody ==
  Dict(<< <<"", IntVal(1)>>, <<"a", IntVal(2)>> >>)
\* A body with containers at several depths, inside a list, and beneath an
\* account; and one with an account inside an account.
DeepBody ==
  Dict(<< <<"account",
            Dict(<< <<"id", StrVal("x1")>>, <<"balance", BalanceBody>> >>)>>,
          <<"order",
            Dict(<< <<"id", StrVal("o1")>>,
                    <<"button",
                      Dict(<< <<"id", StrVal("b1")>>,
                              <<"tags", List(<<Dict(<< <<"k", IntVal(1)>> >>)>>)>>
                           >>)>> >>)>>,
          <<"transfers",
            List(<<Wrapper("transfers",
                           Dict(<< <<"id", StrVal("t1")>> >>))>>)>> >>)
NestedAccountsBody ==
  Dict(<< <<"account",
            Dict(<< <<"id", StrVal("x1")>>,
                    <<"account",
                      Dict(<< <<"id", StrVal("x2")>>,
                              <<"balance", BalanceBody>> >>)>> >>)>> >>)
LegacyAnswers ==
  {Response(200, body) :
     body \in TypedBodies \cup PluralBodies \cup MalformedBodies
               \cup {BalanceBody, EmptyKeyBody, DeepBody, NestedAccountsBody}}
  \cup {Response(401, Dict(<< <<"error", StrVal("e")>> >>)),
        Response(500, NotJson)}

AmountValues == {Null, StrVal("12.0")}

\* How many calls the caller makes on the receiver, one after the other.
MaxCalls == 2

InitLegacy ==
  /\ \E receiver \in LegacyReceivers : heap = <<receiver>>
  /\ held = [self |-> 1, alias |-> 1]
  /\ \E answer \in LegacyAnswers : answers = <<answer>>
  /\ outcome = NoResult
  /\ IdleBuild /\ IdleAttr /\ IdleTokens

\* The caller's call through the name self, and what it leaves.
LegacyDone(call, params, left) ==
  /\ heap' = left.heap
  /\ outcome' = [call |-> call, params |-> params, out |-> left.out,
                 sent |-> left.sent]
  /\ UNCHANGED <<answers, held, buildVars, attrVars, tokens>>

\* The caller goes on to another call, which the server will answer anew.
\* ops counts the calls the caller has completed.
Legacy_next_call ==
  /\ outcome # NoResult /\ ops + 1 < MaxCalls
  /\ ops' = ops + 1
  /\ outcome' = NoResult
  /\ \E answer \in LegacyAnswers : answers' = <<answer>>
  /\ UNCHANGED <<heapVars, container, last, buildVars, tokens>>

\* account.get_balance()
Legacy_get_balance ==
  /\ outcome = NoResult /\ heap[held.self].cls = "Account"
  /\ LegacyDone("get_balance", {},
                LegacyGetBalance(heap, held.self, answers[1]))

\* account.set_primary()
Legacy_set_primary ==
  /\ outcome = NoResult /\ heap[held.self].cls = "Account"
  /\ LegacyDone("set_primary", {},
                LegacySetPrimary(heap, held.self, answers[1]))

\* account.modify(new_name)
Legacy_modify ==
  /\ outcome = NoResult /\ heap[held.self].cls = "Account"
  /\ LegacyDone("modify", {"new_name"},
                LegacyAccountModify(heap, held.self, answers[1]))

\* user.modify(name=..., native_currency=..., time_zone=...)
Legacy_user_modify ==
  /\ outcome = NoResult /\ heap[held.self].cls = "User"
  /\ \E fields \in SUBSET {"name", "time_zone"} :
       LegacyDone("user_modify", fields,
                  LegacyUserModify(heap, held.self, answers[1], fields))

\* account.get_transaction(transaction_id)
Legacy_get_transaction ==
  /\ outcome = NoResult /\ heap[held.self].cls = "Account"
  /\ LegacyDone("get_transaction", {},
                LegacyEndpoint(heap, held.self, answers[1], "transaction",
                               "Transaction", TRUE))

\* account.get_transfer(transfer_id)
Legacy_get_transfer ==
  /\ outcome = NoResult /\ heap[held.self].cls = "Account"
  /\ LegacyDone("get_transfer", {},
                LegacyEndpoint(heap, held.self, answers[1], "transfer",
                               "Transfer", TRUE))

\* account.get_order(id_or_custom)
Legacy_get_order ==
  /\ outcome = NoResult /\ heap[held.self].cls = "Account"
  /\ LegacyDone("get_order", {},
                LegacyEndpoint(heap, held.self, answers[1], "order",
                               "Order", TRUE))

\* account.get_button(code_or_custom)
Legacy_get_button ==
  /\ outcome = NoResult /\ heap[held.self].cls = "Account"
  /\ LegacyDone("get_button", {},
                LegacyEndpoint(heap, held.self, answers[1], "button",
                               "Button", FALSE))

\* client.get_account(account_id)
Legacy_get_account ==
  /\ outcome = NoResult
  /\ LegacyDone("get_account", {}, LegacyGetAccount(heap, answers[1]))

\* client._make_api_object(response.json()) for the response of a _get
Legacy_load ==
  /\ outcome = NoResult
  /\ LegacyDone("load", {}, Left(heap, LegacyMakeApiObject(answers[1]), 1))

\* client._make_api_object(response.json(), account=account)
Legacy_make_api_object ==
  /\ outcome = NoResult /\ heap[held.self].cls = "Account"
  /\ LegacyDone("make_api_object", {},
                Left(heap, LegacyMakeApiObjectFor(heap, held.self, answers[1]),
                     1))

\* button.get_orders(), the button one that the account materialized
Legacy_button_get_orders ==
  /\ outcome = NoResult /\ heap[held.self].cls = "Account"
  /\ LegacyDone("get_orders", {},
                Left(heap, LegacyButtonGetOrders(heap, held.self, answers[1]),
                     1))

\* account.transfer_money(to_account_id, amount=, amount_string=,
\* amount_currency_iso=)
Legacy_transfer_money ==
  /\ outcome = NoResult /\ heap[held.self].cls = "Account"
  /\ \E amount \in AmountValues, amount_string \in AmountValues,
        amount_currency_iso \in AmountValues :
       LegacyDone("transfer_money",
                  [amount |-> amount, amount_string |-> amount_string,
                   amount_currency_iso |-> amount_currency_iso],
                  LegacyMoney(heap, held.self, answers[1], amount,
                              amount_string, amount_currency_iso))

\* account.send_money(to_btc_address, amount=, amount_string=,
\* amount_currency_iso=)
Legacy_send_money ==
  /\ outcome = NoResult /\ heap[held.self].cls = "Account"
  /\ \E amount \in AmountValues, amount_string \in AmountValues,
        amount_currency_iso \in AmountValues :
       LegacyDone("send_money",
                  [amount |-> amount, amount_string |-> amount_string,
                   amount_currency_iso |-> amount_currency_iso],
                  LegacyMoney(heap, held.self, answers[1], amount,
                              amount_string, amount_currency_iso))

\* account.request_money(from_email_address, amount=, amount_string=,
\* amount_currency_iso=)
Legacy_request_money ==
  /\ outcome = NoResult /\ heap[held.self].cls = "Account"
  /\ \E amount \in AmountValues, amount_string \in AmountValues,
        amount_currency_iso \in AmountValues :
       LegacyDone("request_money",
                  [amount |-> amount, amount_string |-> amount_string,
                   amount_currency_iso |-> amount_currency_iso],
                  LegacyMoney(heap, held.self, answers[1], amount,
                              amount_string, amount_currency_iso))

NextLegacy ==
  \/ Legacy_next_call \/ Legacy_get_balance
  \/ Legacy_set_primary \/ Legacy_modify \/ Legacy_user_modify
  \/ Legacy_get_transaction \/ Legacy_get_transfer \/ Legacy_get_order
  \/ Legacy_get_button \/ Legacy_get_account \/ Legacy_load
  \/ Legacy_make_api_object \/ Legacy_button_get_orders
  \/ Legacy_transfer_money \/ Legacy_send_money \/ Legacy_request_money

SpecLegacy == InitLegacy /\ [][NextLegacy]_vars

----------------------------------------------------------------------------
(* Claims about SpecLegacy *)

LegacyMade == outcome # NoResult
MoneyCalls == {"transfer_money", "send_money", "request_money"}
\* The amount arguments the caller supplied.
Supplied ==
  {name \in {"amount", "amount_string", "amount_currency_iso"} :
     outcome.params[name] # Null}
\* Exactly one amount representation is supplied.
OneRepresentation ==
  Supplied \in {{"amount"}, {"amount_string", "amount_currency_iso"}}

\* C15: the legacy Account.transfer_money, send_money and request_money
\* raise ValueError without issuing any HTTP request unless exactly one
\* amount representation is supplied (amount alone, or amount_string and
\* amount_currency_iso without amount); of the eight combinations of the
\* three arguments only those two reach the network, and they do so with one
\* request when the account has an id.
C15_OneAmountRepresentation ==
  (LegacyMade /\ outcome.call \in MoneyCalls) =>
    /\ ~OneRepresentation =>
         outcome.out = Raised("ValueError") /\ outcome.sent = 0
    /\ OneRepresentation =>
         /\ outcome.out # Raised("ValueError")
         /\ HasKey(heap[held.self].v, "id") => outcome.sent = 1

\* Reached: a send_money with amount_string and amount_currency_iso alone
\* went to the network and returned the transaction.
C15_Witness ==
  /\ LegacyMade /\ outcome.call = "send_money"
  /\ Supplied = {"amount_string", "amount_currency_iso"}
  /\ outcome.sent = 1 /\ IsInstance(outcome.out, "Transaction")

UpdateCalls == {"set_primary", "modify", "user_modify"}
\* The key under which a modify expects the object it merges.
MergedKey == IF outcome'.call = "modify" THEN "account" ELSE "user"
\* The body of the server's answer, read as the caller of the library would.
LegacyBody == answers[1].content
\* dict.update as its postcondition: every key of other with other's value,
\* every other key as it was, and no key besides.
MergedFrom(before, other, after) ==
  /\ KeysOf(after) = KeysOf(before) \cup KeysOf(other)
  /\ \A k \in KeysOf(other) : ItemOf(after, k) = ItemOf(other, k)
  /\ \A k \in KeysOf(before) \ KeysOf(other) :
       ItemOf(after, k) = ItemOf(before, k)

\* C16: when the legacy Account.set_primary, Account.modify or User.modify
\* raises (APIError or UnexpectedDataFormatError among others) the
\* receiver's mapping is exactly what it was before the call; when the call
\* succeeds the receiver is changed in place: modify merges the keys of the
\* returned object into it, set_primary sets primary to True. With a 200
\* answer and a receiver that has an id, the call succeeds exactly when
\* 'success' is true and, for modify, the object under 'account' / 'user' is
\* a mapping.
C16_UnchangedUnlessSuccess ==
  [][(outcome = NoResult /\ outcome' # NoResult
      /\ outcome'.call \in UpdateCalls) =>
       LET before == heap[held.self]
           after == heap'[held.self]
           out == outcome'.out
           succeeds ==
             /\ answers[1].status_code = 200
             /\ HasKey(before.v, "id")
             /\ outcome'.params # {} \/ outcome'.call # "user_modify"
             /\ HasKey(LegacyBody.v, "success")
             /\ ItemOf(LegacyBody.v, "success") = Bool(TRUE)
             /\ outcome'.call # "set_primary" =>
                  /\ HasKey(LegacyBody.v, MergedKey)
                  /\ ItemOf(LegacyBody.v, MergedKey).t = "dict"
       IN  /\ Len(heap') = Len(heap) /\ held' = held
           /\ IsRaised(out) <=> ~succeeds
           /\ IsRaised(out) => after = before
           /\ ~IsRaised(out) =>
                /\ after.cls = before.cls /\ after.dict = before.dict
                /\ IF outcome'.call = "set_primary"
                     THEN MergedFrom(before.v, << <<"primary", Bool(TRUE)>> >>,
                                     after.v)
                     ELSE MergedFrom(before.v,
                                     ItemOf(LegacyBody.v, MergedKey).v,
                                     after.v)]_vars

\* Reached: a modify answered with success false and a renamed account has
\* raised APIError, and the account still has its old name.
C16_Witness ==
  /\ LegacyMade /\ outcome.call = "modify"
  /\ outcome.out = Raised("APIError") /\ outcome.sent = 1
  /\ answers[1].status_code = 200
  /\ HasKey(LegacyBody.v, "account")
  /\ ItemOf(LegacyBody.v, "account").t = "dict"
  /\ HasKey(ItemOf(LegacyBody.v, "account").v, "name")
  /\ DictGet(heap[held.self].v, "name") = StrVal("Wallet")

\* Reached: a modify that succeeded has renamed the account in place.
C16_Merged ==
  /\ LegacyMade /\ outcome.call = "modify" /\ outcome.out = Null
  /\ DictGet(heap[held.self].v, "name") = StrVal("Vault")

\* The key and the class each endpoint method expects.
Expected ==
  [get_transaction |-> [key |-> "transaction", cls |-> "Transaction"],
   get_transfer |-> [key |-> "transfer", cls |-> "Transfer"],
   get_order |-> [key |-> "order", cls |-> "Order"],
   get_button |-> [key |-> "button", cls |-> "Button"],
   get_account |-> [key |-> "account", cls |-> "Account"]]
\* Every plural key of the body holds a list of wrappers of a mapping.
Unnestable(body) ==
  \A plural \in KeysOf(body.v) \cap DOMAIN LegacyUnnesters :
    LET wrappers == ItemOf(body.v, plural)
    IN  /\ wrappers.t = "list"
        /\ \A i \in 1..Len(wrappers.v) :
             /\ wrappers.v[i].t = "dict"
             /\ HasKey(wrappers.v[i].v, LegacyUnnesters[plural])
             /\ ItemOf(wrappers.v[i].v, LegacyUnnesters[plural]).t = "dict"
\* The request of the call was answered 200; the methods that send the
\* account's id need the account to have one.
EndpointAnswered ==
  /\ LegacyMade /\ outcome.call \in DOMAIN Expected
  /\ answers[1].status_code = 200
  /\ outcome.call \in {"get_button", "get_account"}
       \/ HasKey(heap[held.self].v, "id")

\* C17: a legacy endpoint method that expects a typed object under a key of
\* the response (get_transaction, get_transfer, get_order, get_button,
\* Client.get_account) raises UnexpectedDataFormatError exactly when the key
\* is missing from the materialized response or its value is not an instance
\* of the expected class, which is when the JSON under the key is not an
\* object; otherwise it returns that instance. load itself never raises
\* this error: when it raises, on a wrapper it cannot unnest, it is a
\* KeyError or an AttributeError.
C17_UnexpectedDataFormat ==
  /\ (EndpointAnswered /\ Unnestable(LegacyBody)) =>
       LET key == Expected[outcome.call].key
           typed == /\ HasKey(LegacyBody.v, key)
                    /\ ItemOf(LegacyBody.v, key).t = "dict"
       IN  /\ typed =>
                /\ IsInstance(outcome.out, Expected[outcome.call].cls)
                /\ KeysOf(outcome.out.v) = KeysOf(ItemOf(LegacyBody.v, key).v)
           /\ ~typed => outcome.out = Raised("UnexpectedDataFormatError")
  /\ (EndpointAnswered /\ ~Unnestable(LegacyBody)) =>
       outcome.out \in {Raised("KeyError"), Raised("AttributeError")}
  /\ (LegacyMade /\ outcome.call = "load") =>
       outcome.out # Raised("UnexpectedDataFormatError")

\* Reached: get_transaction, answered with a string under 'transaction',
\* has raised UnexpectedDataFormatError.
C17_Witness ==
  /\ EndpointAnswered /\ outcome.call = "get_transaction"
  /\ HasKey(LegacyBody.v, "transaction")
  /\ ItemOf(LegacyBody.v, "transaction") = StrVal("nottherighttype")
  /\ outcome.out = Raised("UnexpectedDataFormatError")

\* Reached: get_account has returned the Account under 'account'.
C17_Returned ==
  /\ EndpointAnswered /\ outcome.call = "get_account"
  /\ IsInstance(outcome.out, "Account")

\* Reached: load has raised on a wrapper it could not unnest.
C17_LoadRaised ==
  /\ LegacyMade /\ outcome.call = "load"
  /\ outcome.out = Raised("KeyError")

\* The class of the containers each plural key is claimed to hold.
PluralClass ==
  [addresses |-> "Address", orders |-> "Order",
   payment_methods |-> "PaymentMethod", transactions |-> "Transaction",
   transfers |-> "Transfer"]
\* load has materialized a body all of whose wrappers can be unnested.
Loaded ==
  /\ LegacyMade /\ outcome.call = "load" /\ answers[1].status_code = 200
  /\ Unnestable(LegacyBody)

\* C18: the legacy load of a mapping whose key 'addresses' (likewise
\* 'orders', 'payment_methods', 'transactions', 'transfers') holds a list of
\* wrappers {'address': {...}} stores under that key a list of the same
\* length and order whose elements are Address (Order, ...) containers that
\* hold the keys and values of the inner objects, not the wrappers.
C18_Unnested ==
  Loaded =>
    /\ outcome.out.t = "o"
    /\ \A plural \in KeysOf(LegacyBody.v) \cap DOMAIN PluralClass :
         LET wrappers == ItemOf(LegacyBody.v, plural).v
             stored == DictGet(outcome.out.v, plural)
         IN  /\ stored.t = "list" /\ Len(stored.v) = Len(wrappers)
             /\ \A i \in 1..Len(wrappers) :
                  /\ IsInstance(stored.v[i], PluralClass[plural])
                  /\ stored.v[i].v =
                       ItemOf(wrappers[i].v, LegacyUnnesters[plural]).v

\* Reached: two wrapped addresses were loaded into two Address containers,
\* in the order of the response.
C18_Witness ==
  /\ Loaded /\ HasKey(LegacyBody.v, "addresses")
  /\ Len(ItemOf(LegacyBody.v, "addresses").v) = 2
  /\ LET stored == ItemOf(outcome.out.v, "addresses").v
     IN  /\ IsInstance(stored[1], "Address") /\ IsInstance(stored[2], "Address")
         /\ ItemOf(stored[1].v, "address") = StrVal("a1")
         /\ ItemOf(stored[2].v, "address") = StrVal("a2")

\* C19: materializing {"account": {"id": "x1"}} at the root (no hint key, no
\* key-set match), 'account' being mapped to Account by the key table,
\* yields a generic root container whose attribute .account is an Account
\* whose .id is "x1".
C19_AccountAttribute ==
  (/\ LegacyMade /\ outcome.call = "load" /\ answers[1].status_code = 200
   /\ LegacyBody = Dict(<< <<"account", Dict(<< <<"id", StrVal("x1")>> >>)>> >>))
    => /\ IsInstance(outcome.out, "APIObject")
       /\ LET account == LegacyGetAttr(outcome.out, "account", PathRef(<<>>))
          IN  /\ IsInstance(account, "Account")
              /\ LegacyGetAttr(account, "id",
                               PathRef(<<[t |-> "str", v |-> "account"]>>))
                   = StrVal("x1")

----------------------------------------------------------------------------
(* coinbase/wallet/client.py: OAuthClient, SpecOAuth *)

\* The access and refresh token an OAuthClient holds.
Tokens(access_token, refresh_token) ==
  [access_token |-> access_token, refresh_token |-> refresh_token]

\* A refresh that returns the blob and leaves the client's tokens alone.
OAuthRefreshKeepingTokens(toks, answer) ==
  LET got == _post(answer)
      blob == IF IsRaised(got.out) THEN got.out ELSE ResponseJson(got.out)
  IN  [tokens |-> toks, out |-> blob, sent |-> got.sent]

\* A refresh that stores the tokens of the answer only when both are given.
OAuthRefreshCheckingFirst(toks, answer) ==
  LET got == _post(answer)
      response == IF IsRaised(got.out) THEN got.out
                  ELSE _handle_response(got.out)
      blob == IF IsRaised(response) THEN response ELSE ResponseJson(response)
      access_token == GetOr(blob.v, "access_token", Null)
      refresh_token == GetOr(blob.v, "refresh_token", Null)
  IN  IF IsRaised(blob) THEN [tokens |-> toks, out |-> blob, sent |-> got.sent]
      ELSE IF ~(Truthy(access_token) /\ Truthy(refresh_token))
        THEN [tokens |-> toks, out |-> build_api_error(response, blob),
              sent |-> got.sent]
        ELSE [tokens |-> Tokens(access_token, refresh_token), out |-> blob,
              sent |-> got.sent]

\* OAuthClient.refresh: the tokens of the client after it, what it returned
\* or raised, and the number of requests sent.
OAuthRefresh(toks, answer) ==
  LET got == _post(answer)
      response == IF IsRaised(got.out) THEN got.out
                  ELSE _handle_response(got.out)
      blob == IF IsRaised(response) THEN response ELSE ResponseJson(response)
      access_token == GetOr(blob.v, "access_token", Null)
      refresh_token == GetOr(blob.v, "refresh_token", Null)
  IN  IF IsRaised(blob) THEN [tokens |-> toks, out |-> blob, sent |-> got.sent]
      ELSE [tokens |-> Tokens(access_token, refresh_token),
            out |-> IF ~(Truthy(access_token) /\ Truthy(refresh_token))
                      THEN build_api_error(response, blob)
                      ELSE blob,
            sent |-> got.sent]

\* OAuthClient.revoke
OAuthRevoke(toks, answer) ==
  LET got == _post(answer)
  IN  [tokens |-> toks,
       out |-> IF IsRaised(got.out) THEN got.out ELSE Null,
       sent |-> got.sent]

\* What the token endpoint may answer: each token given, null, empty or
\* left out, with or without an OAuth error, under a 2xx or a 401 status; or
\* a 500 page that is not JSON.
TokenParts(name, fresh) ==
  {<<>>, << <<name, StrVal(fresh)>> >>, << <<name, Null>> >>,
   << <<name, StrVal("")>> >>}
OAuthErrorParts ==
  {<<>>, << <<"error", StrVal("invalid_request")>>,
            <<"error_description", StrVal("d")>> >>}
OAuthAnswers ==
  {Response(status, Dict(a \o r \o e)) :
     status \in {200, 201, 401},
     a \in TokenParts("access_token", "newaccesstoken"),
     r \in TokenParts("refresh_token", "newrefreshtoken"),
     e \in OAuthErrorParts}
  \cup {Response(500, NotJson)}

\* OAuthClient.__init__(access_token, refresh_token), both of them true.
InitOAuth ==
  /\ tokens = Tokens(StrVal("accesstoken"), StrVal("refreshtoken"))
  /\ \E answer \in OAuthAnswers : answers = <<answer>>
  /\ outcome = NoResult
  /\ IdleBuild /\ IdleAttr /\ IdleHeap

\* client.refresh()
OAuth_refresh ==
  /\ outcome = NoResult
  /\ LET left == OAuthRefresh(tokens, answers[1])
     IN  /\ tokens' = left.tokens
         /\ outcome' = [call |-> "refresh", out |-> left.out,
                        sent |-> left.sent]
  /\ UNCHANGED <<answers, buildVars, attrVars, heapVars>>

\* client.revoke()
OAuth_revoke ==
  /\ outcome = NoResult
  /\ LET left == OAuthRevoke(tokens, answers[1])
     IN  /\ tokens' = left.tokens
         /\ outcome' = [call |-> "revoke", out |-> left.out,
                        sent |-> left.sent]
  /\ UNCHANGED <<answers, buildVars, attrVars, heapVars>>

NextOAuth == OAuth_refresh \/ OAuth_revoke

SpecOAuth == InitOAuth /\ [][NextOAuth]_vars

----------------------------------------------------------------------------
(* Claims about SpecOAuth *)

Refreshed == outcome # NoResult /\ outcome.call = "refresh"
TokenBlob == answers[1].content
\* The token the answer gives under a name: a non-empty string.
Gives(name) ==
  /\ HasKey(TokenBlob.v, name)
  /\ ItemOf(TokenBlob.v, name).t = "str"
  /\ ItemOf(TokenBlob.v, name).v # ""

\* C20: when the token endpoint answers OAuthClient.refresh 2xx with both
\* 'access_token' and 'refresh_token', the client's access_token and
\* refresh_token become exactly those values and the response dict is
\* returned; when the JSON answer lacks either token, an APIError (of the
\* class the error tables give) is raised.
C20_Refresh ==
  (Refreshed /\ TokenBlob.t = "dict") =>
    IF /\ Is2xx(answers[1].status_code)
       /\ Gives("access_token") /\ Gives("refresh_token")
      THEN /\ tokens = Tokens(ItemOf(TokenBlob.v, "access_token"),
                              ItemOf(TokenBlob.v, "refresh_token"))
           /\ outcome.out = TokenBlob
      ELSE /\ IsRaised(outcome.out)
           /\ outcome.out.exc \in APIErrorClasses

\* Reached: a refresh answered 200 with both tokens has replaced the
\* client's tokens by them and returned the answer.
C20_Witness ==
  /\ Refreshed /\ answers[1].status_code = 200
  /\ tokens = Tokens(StrVal("newaccesstoken"), StrVal("newrefreshtoken"))
  /\ outcome.out = TokenBlob

\* Reached: a refresh answered 200 without a refresh token has raised an
\* APIError.
C20_Lacking ==
  /\ Refreshed /\ answers[1].status_code = 200
  /\ Gives("access_token") /\ ~HasKey(TokenBlob.v, "refresh_token")
  /\ IsRaised(outcome.out) /\ outcome.out.exc = "APIError"

----------------------------------------------------------------------------
(* The warnings of a response: SpecWarn *)

\* How many entries a 'warnings' list may have.
MaxWarnings == 2

\* The entries of a 'warnings' list: with message and url, with one of
\* them, with neither.
WarningEntries ==
  {Dict(<< <<"message", StrVal("foo")>>, <<"url", StrVal("bar")>> >>),
   Dict(<< <<"message", StrVal("foo")>> >>),
   Dict(<< <<"url", StrVal("bar")>> >>),
   Dict(<<>>)}
\* The 'warnings' part of a body: none, or a list of up to MaxWarnings
\* entries.
WarningParts ==
  {<<>>} \cup
  {<< <<"warnings", List(w)>> >> :
     w \in UNION {[1..n -> WarningEntries] : n \in 0..MaxWarnings}}
\* The payload part: none, a resource, a collection, or the only page of a
\* paginated collection.
WarnedPayloads ==
  {<<>>,
   << <<"data", Item(1)>> >>,
   << <<"data", List(<<Item(1), Item(2)>>)>> >>,
   << <<"data", List(<<Item(1)>>)>>,
      <<"pagination", Dict(<< <<"next_uri", Null>> >>)>> >>}

InitWarn ==
  /\ \E status \in {200, 201}, p \in WarnedPayloads, w \in WarningParts :
       answers = <<Response(status, Dict(p \o w))>>
  /\ outcome = NoResult
  /\ IdleBuild /\ IdleAttr /\ IdleHeap /\ IdleTokens

\* Client.get_currencies()
get_currencies ==
  /\ outcome = NoResult
  /\ outcome' = MakeFrom("get_currencies", {}, _get(answers, 1, <<>>),
                         "APIObject")
  /\ UNCHANGED <<answers, notClientVars>>

\* Client.get_exchange_rates()
get_exchange_rates ==
  /\ outcome = NoResult
  /\ outcome' = MakeFrom("get_exchange_rates", {}, _get(answers, 1, <<>>),
                         "APIObject")
  /\ UNCHANGED <<answers, notClientVars>>

\* Client.get_current_user()
get_current_user ==
  /\ outcome = NoResult
  /\ outcome' = MakeFrom("get_current_user", {}, _get(answers, 1, <<>>),
                         "CurrentUser")
  /\ UNCHANGED <<answers, notClientVars>>

NextWarn == get_currencies \/ get_exchange_rates \/ get_current_user

SpecWarn == InitWarn /\ [][NextWarn]_vars

----------------------------------------------------------------------------
(* Claims about SpecWarn *)

\* The entries of the 'warnings' list of the answer.
SentWarnings == ItemOf(answers[1].content.v, "warnings").v
\* The call was answered with a 'data' payload and a 'warnings' list.
Warned ==
  /\ outcome # NoResult
  /\ HasKey(answers[1].content.v, "data")
  /\ HasKey(answers[1].content.v, "warnings")
\* The class the call asks _make_api_object for.
AskedClass ==
  IF outcome.call = "get_current_user" THEN "CurrentUser" ELSE "APIObject"
\* What the same call returns for the same answer without its warnings.
Unwarned ==
  _make_api_object(
    TheClient,
    Response(answers[1].status_code,
             Dict(DictDelItem(answers[1].content.v, "warnings"))),
    AskedClass).out

\* C21: for a 2xx response that has a 'data' payload and a 'warnings' list
\* of n entries, _make_api_object calls warnings.warn exactly n times, once
\* per entry and in their order, with the entry's message and url ('' for
\* one that is missing); the returned object's warnings attribute is the
\* materialized list; and the object is returned, not an exception, with the
\* mapping contents it has when no warnings are sent.
C21_Warnings ==
  Warned =>
    /\ Len(outcome.warned) = Len(SentWarnings)
    /\ \A i \in 1..Len(SentWarnings) :
         outcome.warned[i] =
           <<GetOr(SentWarnings[i].v, "message", StrVal("")),
             GetOr(SentWarnings[i].v, "url", StrVal(""))>>
    /\ outcome.out.t = "o"
    /\ LET attached == AttrValue(outcome.out, "warnings")
       IN  /\ attached.t = "list" /\ Len(attached.v) = Len(SentWarnings)
           /\ \A i \in 1..Len(SentWarnings) :
                /\ attached.v[i].t = "o"
                /\ attached.v[i].v = SentWarnings[i].v
    /\ outcome.out.v = Unwarned.v
    /\ outcome.out.cls = Unwarned.cls

\* Reached: a collection sent with two warnings was returned with both
\* warnings emitted and attached.
C21_Witness ==
  /\ Warned /\ Len(SentWarnings) = 2 /\ Len(outcome.warned) = 2
  /\ outcome.warned[1] # outcome.warned[2]
  /\ outcome.out.t = "o" /\ HasKey(outcome.out.v, "data")
  /\ Len(AttrValue(outcome.out, "warnings").v) = 2

----------------------------------------------------------------------------
(* More claims about SpecLegacy *)

\* C22: a root-level legacy load (no key), as Account.get_balance and every
\* endpoint method that calls self.load(response.json()) performs it,
\* returns the materialized value to the caller and leaves the receiver as
\* it was; so after any sequence of calls that make no assignment of their
\* own the receiver's keys and values (account.balance, say) are what they
\* were before. Here: every call but set_primary and the two modify leaves
\* the heap unchanged, and get_balance returns a container with the keys of
\* the body (those that load stores: the non-empty ones).
C22_RootLoadReturns ==
  [][(outcome = NoResult /\ outcome' # NoResult
      /\ outcome'.call \notin UpdateCalls) =>
       /\ heap' = heap /\ held' = held
       /\ (/\ outcome'.call = "get_balance"
           /\ answers[1].status_code = 200
           /\ HasKey(heap[held.self].v, "id")
           /\ Unnestable(LegacyBody)) =>
            /\ outcome'.out.t = "o"
            /\ KeysOf(outcome'.out.v) = KeysOf(LegacyBody.v) \ {""}]_vars

\* Reached: the second get_balance in a row has returned a Money, and the
\* account's own balance is still the initial one.
C22_Witness ==
  /\ LegacyMade /\ outcome.call = "get_balance" /\ ops = 1
  /\ IsInstance(outcome.out, "Money")
  /\ ItemOf(outcome.out.v, "amount") = StrVal("10.00")
  /\ HasKey(heap[held.self].v, "balance")
  /\ ItemOf(heap[held.self].v, "balance") = Ref("initial_balance")

----------------------------------------------------------------------------
(* coinbase/util.py: _clean_params, SpecClean *)

\* A cleaning that never descends into nested dicts.
CleanParamsShallow(pairs, bools_to_ints, drop_nones, recursive) ==
  LET kept == SelectSeq(pairs, LAMBDA p : ~(drop_nones /\ p[2] = Null))
  IN  [i \in 1..Len(kept) |->
         IF bools_to_ints /\ kept[i][2].t = "bool"
           THEN <<kept[i][1], IntVal(IF kept[i][2].v THEN 1 ELSE 0)>>
           ELSE kept[i]]

\* _clean_params(params, bools_to_ints, drop_nones, recursive) on the items
\* of params, from the i-th on, cleaned being the items kept so far.
RECURSIVE CleanItems(_, _, _, _, _, _)
CleanItems(pairs, i, cleaned, bools_to_ints, drop_nones, recursive) ==
  IF i > Len(pairs) THEN cleaned
  ELSE
    LET key == pairs[i][1]
        value == pairs[i][2]
        rest(c) == CleanItems(pairs, i + 1, c, bools_to_ints, drop_nones,
                              recursive)
    IN  IF bools_to_ints /\ value.t = "bool"
          THEN rest(DictSetItem(cleaned, key,
                                IntVal(IF value.v THEN 1 ELSE 0)))
        ELSE IF drop_nones /\ value = Null THEN rest(cleaned)
        ELSE IF recursive /\ IsDict(value)
          THEN rest(DictSetItem(cleaned, key,
                      Dict(CleanItems(value.v, 1, <<>>, bools_to_ints,
                                      drop_nones, recursive))))
        ELSE rest(DictSetItem(cleaned, key, value))

\* _clean_params
CleanParams(pairs, bools_to_ints, drop_nones, recursive) ==
  CleanItems(pairs, 1, <<>>, bools_to_ints, drop_nones, recursive)

\* How many keys the params of a call may have.
MaxParams == 2

ParamKeys == <<"int", "none", "nested">>
\* Values that are not dicts: None, the booleans, a number, a string and a
\* list that holds a None.
PlainValues ==
  {Null, Bool(TRUE), Bool(FALSE), IntVal(1), StrVal("a"), List(<<Null>>)}
\* Dicts of up to n keys with values from a set, in the order of ParamKeys.
DictsOf(n, values) ==
  {Dict([i \in 1..Len(v) |-> <<ParamKeys[i], v[i]>>]) :
     v \in UNION {[1..j -> values] : j \in 0..n}}
NestedValues ==
  DictsOf(2, {Null, Bool(TRUE), IntVal(1)})
  \cup {Dict(<< <<"nested", Dict(<< <<"none", Null>> >>)>> >>)}
Options == [bools_to_ints : BOOLEAN, drop_nones : BOOLEAN, recursive : BOOLEAN]

\* The caller has the params and the options of a call.
InitClean ==
  /\ obj \in DictsOf(MaxParams, PlainValues \cup NestedValues)
  /\ arg_kwargs \in Options
  /\ size = 0 /\ arg_cls = "None" /\ result = NoResult
  /\ IdleClient /\ IdleAttr /\ IdleHeap /\ IdleTokens

\* _clean_params(obj, **arg_kwargs)
clean_params ==
  /\ result = NoResult
  /\ result' = Dict(CleanParams(obj.v, arg_kwargs.bools_to_ints,
                                arg_kwargs.drop_nones, arg_kwargs.recursive))
  /\ UNCHANGED <<obj, size, arg_cls, arg_kwargs, notBuildVars>>

NextClean == clean_params

SpecClean == InitClean /\ [][NextClean]_vars

----------------------------------------------------------------------------
(* Claims about SpecClean *)

\* The keys of a mapping in their order.
KeySeq(pairs) == [i \in 1..Len(pairs) |-> pairs[i][1]]

\* What the claim says of the cleaned form of a mapping under the options.
RECURSIVE CleanedAs(_, _, _)
CleanedAs(given, cleaned, options) ==
  /\ KeySeq(cleaned) =
       KeySeq(SelectSeq(given,
                        LAMBDA p : ~(options.drop_nones /\ p[2] = Null)))
  /\ \A k \in KeysOf(cleaned) :
       LET value == ItemOf(given, k)
           kept == ItemOf(cleaned, k)
       IN  IF options.bools_to_ints /\ value.t = "bool"
             THEN kept = IntVal(IF value.v THEN 1 ELSE 0)
           ELSE IF options.recursive /\ value.t = "dict"
             THEN kept.t = "dict" /\ CleanedAs(value.v, kept.v, options)
           ELSE kept = value

\* C23: _clean_params(params) returns a mapping that, at every nesting depth
\* of dict values, has exactly the input's keys whose value is not None, in
\* their order, all other values unchanged (a nested dict that becomes empty
\* is kept as an empty dict); with bools_to_ints every bool is replaced by 1
\* or 0; with drop_nones=False the None-valued keys are kept; with
\* recursive=False nested dicts are returned as given.
C23_CleanParams ==
  result # NoResult =>
    /\ result.t = "dict"
    /\ CleanedAs(obj.v, result.v, arg_kwargs)

\* Reached: with the default options a nested dict that held only a None
\* was kept as an empty dict, next to a None that was dropped.
C23_Witness ==
  /\ result # NoResult
  /\ arg_kwargs = [bools_to_ints |-> FALSE, drop_nones |-> TRUE,
                   recursive |-> TRUE]
  /\ obj = Dict(<< <<"int", Null>>,
                   <<"none", Dict(<< <<"int", Null>> >>)>> >>)
  /\ result = Dict(<< <<"none", Dict(<<>>)>> >>)

\* The keys of a mapping in their order of insertion.
KeyOrder(pairs) == [i \in 1..Len(pairs) |-> pairs[i][1]]

\* What the claim says of the container loaded from a JSON value met under
\* key: it has the keys of the (unnested) mapping, in their order, and so
\* have the containers below it.
RECURSIVE SameKeys(_, _, _)
SameKeys(key, json, loaded) ==
  IF json.t = "dict"
    THEN LET inner == LegacyUnnest(key, json)
         IN  /\ loaded.t = "o"
             /\ KeyOrder(loaded.v) = KeyOrder(inner.v)
             /\ \A i \in 1..Len(inner.v) :
                  SameKeys(inner.v[i][1], inner.v[i][2], loaded.v[i][2])
  ELSE IF json.t = "list"
    THEN /\ loaded.t = "list" /\ Len(loaded.v) = Len(json.v)
         /\ \A i \in 1..Len(json.v) : SameKeys(key, json.v[i], loaded.v[i])
  ELSE TRUE

\* C24: in the legacy load, for every key/value pair of a source mapping
\* (after unnesting, if any) the materialized value is stored in the new
\* instance under that key: the instance's keys are the source's keys, in
\* the source's order of insertion, for every possible string key.
C24_EveryKeyStored ==
  Loaded => SameKeys("None", LegacyBody, outcome.out)

\* The same for the mappings none of whose keys is the empty string.
C24_NonEmptyKeysStored ==
  (Loaded /\ LegacyBody # EmptyKeyBody) =>
    SameKeys("None", LegacyBody, outcome.out)

----------------------------------------------------------------------------
(* Paginated collections: SpecPages *)

\* How many pages a collection may have, and how many items a page.
MaxChain == 3
MaxItems == 2

\* The items the server has sent on the pages so far.
RECURSIVE ItemsSent(_, _)
ItemsSent(script, n) ==
  IF n = 0 THEN <<>>
  ELSE ItemsSent(script, n - 1) \o ItemOf(script[n].content.v, "data").v

\* A page of k items, numbered on from those already sent, whose next_uri is
\* next.
Page(script, k, next) ==
  LET sent == Len(ItemsSent(script, Len(script)))
  IN  Response(200,
        Dict(<< <<"pagination", Dict(<< <<"next_uri", next>> >>)>>,
                <<"data", List([i \in 1..k |-> Item(sent + i)])>> >>))

InitPages ==
  /\ answers = <<>> /\ outcome = NoResult
  /\ IdleBuild /\ IdleAttr /\ IdleHeap /\ IdleTokens

\* The server has a page that is followed by another.
PageWithNext ==
  /\ outcome = NoResult /\ Len(answers) + 1 < MaxChain
  /\ answers = <<>> \/ ~Complete
  /\ \E k \in 0..MaxItems :
       answers' = Append(answers,
                         Page(answers, k, StrVal("/v2/x?starting_after=c")))
  /\ UNCHANGED <<outcome, notClientVars>>

\* The server has the last page of the collection.
LastPage ==
  /\ outcome = NoResult
  /\ answers = <<>> \/ ~Complete
  /\ \E k \in 0..MaxItems : answers' = Append(answers, Page(answers, k, Null))
  /\ UNCHANGED <<outcome, notClientVars>>

\* The server answers with no body, or with a body that has no 'pagination'.
Unpaginated ==
  /\ outcome = NoResult /\ answers = <<>>
  /\ \E content \in {EmptyBody, Dict(<< <<"data", Item(1)>> >>),
                     Dict(<< <<"data", List(<<Item(1), Item(2)>>)>> >>)} :
       answers' = <<Response(200, content)>>
  /\ UNCHANGED <<outcome, notClientVars>>

\* client._get(...)
GetPages ==
  /\ outcome = NoResult /\ Complete
  /\ LET got == _get(answers, 1, <<>>)
     IN  outcome' = Outcome("_get", {}, got.out,
                            IF IsRaised(got.out) THEN Null ELSE got.out,
                            got.method, got.sent, <<>>)
  /\ UNCHANGED <<answers, notClientVars>>

\* Client.get_transactions(account_id)
get_transactions ==
  /\ outcome = NoResult /\ Complete
  /\ outcome' = MakeFrom("get_transactions", {}, _get(answers, 1, <<>>),
                         "Transaction")
  /\ UNCHANGED <<answers, notClientVars>>

NextPages ==
  \/ PageWithNext \/ LastPage \/ Unpaginated \/ GetPages \/ get_transactions

SpecPages == InitPages /\ [][NextPages]_vars

----------------------------------------------------------------------------
(* Claims about SpecPages *)

\* The answers are a chain of pages: each but the last names a next page.
IsChain ==
  /\ \A i \in 1..Len(answers) :
       /\ answers[i].content.t = "dict"
       /\ HasKey(answers[i].content.v, "pagination")
  /\ \A i \in 1..(Len(answers) - 1) :
       ItemOf(ItemOf(answers[i].content.v, "pagination").v, "next_uri") # Null
  /\ ItemOf(ItemOf(answers[Len(answers)].content.v, "pagination").v,
            "next_uri") = Null

\* C25: for a paginated GET whose pages form a finite chain of n pages (the
\* last page's next_uri is null), Client._get returns after exactly n
\* requests, one per page, the i-th page being the answer to the i-th
\* request; a response with no body or without a 'pagination' key is
\* returned, as it is, after exactly one request. _get calls itself once
\* per page that names a next one.
C25_OneRequestPerPage ==
  (outcome # NoResult /\ outcome.call = "_get") =>
    /\ IsChain =>
         /\ outcome.sent = Len(answers)
         /\ ~IsRaised(outcome.out)
    /\ ~IsChain =>
         /\ outcome.sent = 1
         /\ outcome.out = answers[1]

\* Reached: a chain of MaxChain pages was walked with as many requests.
C25_Witness ==
  /\ outcome # NoResult /\ outcome.call = "_get" /\ IsChain
  /\ Len(answers) = MaxChain /\ outcome.sent = MaxChain

\* Reached: an answer without a body was returned after one request.
C25_NoBody ==
  /\ outcome # NoResult /\ outcome.call = "_get"
  /\ answers[1].content = EmptyBody /\ outcome.sent = 1

\* The items of the pages i to j, in the order of the pages.
RECURSIVE PageItems(_, _)
PageItems(i, j) ==
  IF i > j THEN <<>>
  ELSE ItemOf(answers[i].content.v, "data").v \o PageItems(i + 1, j)

\* C26: the response Client._get returns after walking n pages has a 'data'
\* list that holds every item of every page exactly once: the items of the
\* last page first, then those of pages 1 to n-1 in the order they were
\* fetched; for n = 1 it is the list of the single page, unchanged.
C26_LastPageFirst ==
  (outcome # NoResult /\ outcome.call = "_get" /\ IsChain) =>
    LET n == Len(answers)
        data == ItemOf(outcome.out.content.v, "data").v
    IN  /\ data = PageItems(n, n) \o PageItems(1, n - 1)
        /\ Len(data) = Len(PageItems(1, n))
        /\ SeqRange(data) = SeqRange(PageItems(1, n))
        /\ \A i, j \in 1..Len(data) : data[i] = data[j] => i = j
        /\ n = 1 => outcome.out = answers[1]

\* Reached: three pages of two, one and two items came back as the last
\* page's two items, then the first page's two, then the second page's one.
C26_Witness ==
  /\ outcome # NoResult /\ outcome.call = "_get" /\ IsChain
  /\ Len(answers) = 3
  /\ Len(PageItems(1, 1)) = 2 /\ Len(PageItems(2, 2)) = 1
  /\ Len(PageItems(3, 3)) = 2
  /\ ItemOf(outcome.out.content.v, "data").v =
       <<Item(4), Item(5), Item(1), Item(2), Item(3)>>

----------------------------------------------------------------------------
(* More claims about SpecOAuth *)

\* The tokens the client of SpecOAuth was constructed with.
ConstructedTokens == Tokens(StrVal("accesstoken"), StrVal("refreshtoken"))

C27_Kept ==
  /\ Refreshed /\ answers[1].status_code = 401
  /\ outcome.out.t = "raise" /\ tokens = ConstructedTokens
----------------------------------------------------------------------------
(* A session of an OAuthClient, coinbase/wallet/auth.py: SpecSession *)

\* How many calls a session makes.
MaxSession == 3

\* '{}'.format(x) of a string or None.
Format(x) == IF x.t = "null" THEN "None" ELSE x.v

\* A hook that carries the token the client was constructed with.
OAuth2AuthAtConstruction(access_token) ==
  "Bearer " \o Format(ConstructedTokens.access_token)

\* OAuth2Auth.__call__: the Authorization header of a request, from what
\* access_token_getter() gives when the request is sent.
OAuth2Auth(access_token) == "Bearer " \o Format(access_token)

\* The headers the session's hook put on the requests of a call: the hook
\* runs once for each request, with the client's access_token of that time.
Authorized(toks, sent) == [i \in 1..sent |-> OAuth2Auth(toks.access_token)]

\* What the token endpoint answers the n-th call of a session: tokens
\* issued for that call, each given or left out, under 200 or 401; or a
\* 500 page that is not JSON.
FreshToken(name, n) == StrVal(name \o ToString(n))
SessionTokenAnswers(n) ==
  {Response(status, Dict(a \o r)) :
     status \in {200, 401},
     a \in {<<>>, << <<"access_token", FreshToken("access", n)>> >>},
     r \in {<<>>, << <<"refresh_token", FreshToken("refresh", n)>> >>}}
  \cup {Response(500, NotJson)}
\* What the API answers a request: the user, or an error.
SessionAnswers ==
  {Response(200, Dict(<< <<"data", Dict(<< <<"id", StrVal("u1")>> >>)>> >>)),
   Response(401, Dict(<< <<"errors", List(<< Dict(<<
     <<"id", StrVal("expired_token")>>,
     <<"message", StrVal("m")>> >>) >>)>> >>))}

\* OAuthClient(access_token, refresh_token); no call made yet.
InitSession ==
  /\ tokens = ConstructedTokens
  /\ answers = <<>> /\ outcome = NoResult
  /\ container = Null /\ ops = 0 /\ last = <<>>
  /\ IdleBuild /\ IdleHeap

\* A call of the session is over: the answer it got, what it returned or
\* raised, the headers its requests carried; `last` lists the calls made
\* so far with their answers, the latest first.
SessionDone(call, answer, left, toks) ==
  /\ ops' = ops + 1
  /\ answers' = <<answer>>
  /\ outcome' = [call |-> call, out |-> left.out, sent |-> left.sent,
                 auth |-> Authorized(toks, left.sent)]
  /\ last' = <<[call |-> call, answer |-> answer]>> \o last
  /\ UNCHANGED <<container, buildVars, heapVars>>

\* client.refresh()
Session_refresh ==
  /\ ops < MaxSession
  /\ \E answer \in SessionTokenAnswers(ops + 1) :
       LET left == OAuthRefresh(tokens, answer)
       IN  /\ tokens' = left.tokens
           /\ SessionDone("refresh", answer, left, tokens)

\* client.revoke()
Session_revoke ==
  /\ ops < MaxSession
  /\ \E answer \in SessionAnswers :
       LET left == OAuthRevoke(tokens, answer)
       IN  /\ tokens' = left.tokens
           /\ SessionDone("revoke", answer, left, tokens)

\* client.get_current_user()
Session_get_current_user ==
  /\ ops < MaxSession
  /\ \E answer \in SessionAnswers :
       LET left == MakeFrom("get_current_user", {}, _get(<<answer>>, 1, <<>>),
                            "CurrentUser")
       IN  /\ tokens' = tokens
           /\ SessionDone("get_current_user", answer, left, tokens)

NextSession == Session_refresh \/ Session_revoke \/ Session_get_current_user

SpecSession == InitSession /\ [][NextSession]_vars

----------------------------------------------------------------------------
(* Claims about SpecSession *)

\* A refresh of the session's list that stored tokens: answered 2xx.
Stored(entry) ==
  entry.call = "refresh" /\ Is2xx(entry.answer.status_code)
\* A successful refresh: answered 2xx with both tokens.
Succeeded(entry) ==
  /\ Stored(entry)
  /\ HasKey(entry.answer.content.v, "access_token")
  /\ HasKey(entry.answer.content.v, "refresh_token")
\* The calls made before the latest one, the latest of them first.
Earlier == Tail(last)
\* The access token stored by the most recent storing refresh of a list.
RECURSIVE StoredBy(_)
StoredBy(entries) ==
  IF entries = <<>> THEN ConstructedTokens.access_token
  ELSE IF Stored(entries[1])
    THEN GetOr(entries[1].answer.content.v, "access_token", Null)
  ELSE StoredBy(Tail(entries))
\* The access tokens the client held before the most recent storing refresh
\* (None, which a refresh may store, is not a token).
RECURSIVE HeldBefore(_)
HeldBefore(entries) ==
  IF entries = <<>> THEN {}
  ELSE IF Stored(entries[1])
    THEN {StoredBy(Tail(entries))} \cup HeldBefore(Tail(entries))
  ELSE HeldBefore(Tail(entries))
TokensBefore(entries) == {old \in HeldBefore(entries) : old.t = "str"}

\* C28: in a session of requests and refreshes on one OAuthClient, every
\* request sent after a successful refresh carries the Authorization header
\* 'Bearer <token>' whose token is the access token stored by the most
\* recent refresh that stored one, and never a token the client held
\* before that refresh.
C28_BearerIsCurrentToken ==
  (/\ outcome # NoResult
   /\ \E i \in 1..Len(Earlier) : Succeeded(Earlier[i])) =>
    \A k \in 1..Len(outcome.auth) :
      /\ outcome.auth[k] = "Bearer " \o Format(StoredBy(Earlier))
      /\ \A old \in TokensBefore(Earlier) :
           outcome.auth[k] # "Bearer " \o Format(old)

\* Reached: after two successful refreshes a request carried the token of
\* the second one.
C28_Witness ==
  /\ outcome # NoResult /\ outcome.call = "get_current_user"
  /\ Len(last) = 3
  /\ Succeeded(last[2]) /\ Succeeded(last[3])
  /\ outcome.auth = <<"Bearer access2">>

\* Reached: after a successful refresh and one answered 200 without an
\* access token, a request carried 'Bearer None'.
C28_None ==
  /\ outcome # NoResult /\ outcome.call = "get_current_user"
  /\ Len(last) = 3
  /\ Stored(last[2]) /\ ~Succeeded(last[2]) /\ Succeeded(last[3])
  /\ outcome.auth = <<"Bearer None">>
----------------------------------------------------------------------------
(* More claims about in-place updates, checked under SpecUpdate *)

\* The identity attributes of an object, as its properties give them.
IdentityOf(o) == [i \in 1..Len(IdentityNames) |-> AttrValue(o, IdentityNames[i])]

\* What a step that is an update call returning the fresh object relates:
\* the receiver before, the receiver after, and the fresh object.
UpdateStep ==
  /\ outcome = NoResult /\ outcome' # NoResult /\ outcome'.out.t = "addr"

\* C29: the update of refresh, modify, set_primary, refund and commit is a
\* merge: every key the receiver had that the fresh object lacks is still
\* in the receiver with the value it had, and the receiver's api_client,
\* response, pagination and warnings (and its class) are the ones it had
\* before, not those of the fresh object.
C29_UpdateIsMerge ==
  [][UpdateStep =>
       LET before == heap[held.self]
           after == heap'[held.self]
           fresh == heap'[outcome'.out.v]
       IN  /\ \A k \in KeysOf(before.v) \ KeysOf(fresh.v) :
                /\ HasKey(after.v, k)
                /\ ItemOf(after.v, k) = ItemOf(before.v, k)
           /\ IdentityOf(after) = IdentityOf(before)
           /\ after.dict = before.dict /\ after.cls = before.cls]_vars

\* Reached: a commit on a Buy holding a key the server does not send; the
\* receiver still has the key and no response, while the fresh object
\* carries the response it was made from.
C29_Witness ==
  /\ UpdateSucceeded /\ outcome.call = "commit"
  /\ ~HasKey(heap[outcome.out.v].v, "stale")
  /\ DictGet(heap[held.self].v, "stale") = IntVal(1)
  /\ DictGet(heap[held.self].v, "name") = StrVal("new")
  /\ AttrValue(heap[held.self], "response") = Null
  /\ AttrValue(heap[outcome.out.v], "response") # Null
----------------------------------------------------------------------------
(* The account of loaded containers, checked under SpecLegacy *)

\* The calls that return the root of the tree they loaded, on the account
\* held as self or with that account passed; and the call that loads with
\* no account at all.
AccountCalls == {"get_balance", "make_api_object", "get_orders"}
LoadedFor ==
  /\ LegacyMade /\ outcome.call \in AccountCalls /\ outcome.out.t = "o"
LoadedBare ==
  /\ LegacyMade /\ outcome.call = "load" /\ outcome.out.t = "o"

\* The place of a child in the tree: under a key, or at an index of a list.
Under(path, k) == Append(path, [t |-> "str", v |-> k])
At(path, i) == Append(path, [t |-> "int", v |-> i - 1])

\* The value at a path of a loaded tree.
RECURSIVE NodeAt(_, _)
NodeAt(node, path) ==
  IF path = <<>> THEN node
  ELSE IF path[1].t = "str"
    THEN NodeAt(ItemOf(node.v, path[1].v), Tail(path))
  ELSE NodeAt(node.v[path[1].v + 1], Tail(path))

\* The paths of the containers of a loaded tree.
RECURSIVE ContainersOf(_, _)
ContainersOf(node, path) ==
  IF node.t = "o"
    THEN {path} \cup UNION {ContainersOf(node.v[i][2], Under(path, node.v[i][1])) :
                              i \in 1..Len(node.v)}
  ELSE IF node.t = "list"
    THEN UNION {ContainersOf(node.v[i], At(path, i)) : i \in 1..Len(node.v)}
  ELSE {}

\* The account attribute of the container at a path of the tree returned.
AccountAt(path) ==
  LegacyGetAttr(NodeAt(outcome.out, path), "account", PathRef(path))

\* The proper prefixes of a path.
Above(path) == {SubSeq(path, 1, n) : n \in 0..(Len(path) - 1)}
\* The accounts of the tree above the container at a path.
AccountsAbove(path) ==
  {p \in Above(path) :
     NodeAt(outcome.out, p).t = "o" /\ NodeAt(outcome.out, p).cls = "Account"}
\* The outermost of them.
Outermost(paths) == CHOOSE p \in paths : \A q \in paths : Len(p) <= Len(q)

\* What an account attribute denotes is the receiver: the receiver itself,
\* or at least an object equal to it.
IsReceiver(ref) ==
  \/ ref = Addr(held.self)
  \/ /\ ref.t = "path"
     /\ NodeAt(outcome.out, ref.v).cls = heap[held.self].cls
     /\ NodeAt(outcome.out, ref.v).v = heap[held.self].v

\* C30 as stated: every container materialized by a call made on an
\* Account A, or with account=A, has an account attribute equal to A.
C30_AccountIsReceiver ==
  LoadedFor =>
    \A path \in ContainersOf(outcome.out, <<>>) : IsReceiver(AccountAt(path))

\* C30, amended: every container other than an Account that a call made on
\* an Account A, or with account=A, materializes has A as its account
\* attribute, at every depth and inside lists; when the receiver has no
\* account, a container other than an Account has as its account attribute
\* the outermost Account materialized above it, or None when there is none;
\* and the account attribute of an Account is the Account itself.
C30_AccountOfContainers ==
  /\ LoadedFor =>
       \A path \in ContainersOf(outcome.out, <<>>) :
         IF NodeAt(outcome.out, path).cls = "Account"
           THEN AccountAt(path) = PathRef(path)
           ELSE AccountAt(path) = Addr(held.self)
  /\ LoadedBare =>
       \A path \in ContainersOf(outcome.out, <<>>) :
         IF NodeAt(outcome.out, path).cls = "Account"
           THEN AccountAt(path) = PathRef(path)
         ELSE IF AccountsAbove(path) = {}
           THEN AccountAt(path) = Null
         ELSE AccountAt(path) = PathRef(Outermost(AccountsAbove(path)))

\* Reached: a call on an account has loaded a body with containers three
\* levels down and inside lists, and an account among them.
C30_Witness ==
  /\ LoadedFor /\ outcome.call = "get_balance" /\ LegacyBody = DeepBody
  /\ AccountAt(<<[t |-> "str", v |-> "order"], [t |-> "str", v |-> "button"],
                 [t |-> "str", v |-> "tags"], [t |-> "int", v |-> 0]>>)
       = Addr(held.self)
  /\ AccountAt(<<[t |-> "str", v |-> "transfers"], [t |-> "int", v |-> 0]>>)
       = Addr(held.self)
  /\ AccountAt(<<[t |-> "str", v |-> "account"]>>)
       = PathRef(<<[t |-> "str", v |-> "account"]>>)

\* Reached: a load without an account has given the containers beneath an
\* account inside an account the outer account.
C30_Beneath ==
  /\ LoadedBare /\ LegacyBody = NestedAccountsBody
  /\ AccountAt(<<[t |-> "str", v |-> "account"],
                 [t |-> "str", v |-> "account"],
                 [t |-> "str", v |-> "balance"]>>)
       = PathRef(<<[t |-> "str", v |-> "account"]>>)
=============================================================================
